---- MODULE Spec2Model ----
(***************************************************************************)
(* Resource-lifecycle caches of the ai_ops plugin:                         *)
(*   - the checkpoint and store factories of the deep agent                *)
(*     (helpers/deep_agent/checkpoint_factory.py, store_factory.py),       *)
(*   - the MCP tool-client cache (agents/multi_mcp_agent.py),              *)
(*   - the middleware pipeline cache (helpers/get_middleware.py) and the   *)
(*     checkpoint sweep that clears it (checkpointer.py).                  *)
(* Every coroutine is cut at its await points: one action runs the code    *)
(* from one suspension to the next, as the single-threaded event loop does.*)
(***************************************************************************)
EXTENDS Integers, Sequences, FiniteSets, TLC

\* Python's None, and the absence of a key from a dict: no id, loop or time is negative
None == 0 - 1
NoName == "none"

\* ------------------------------------------------------------------ bounds
\* coroutines that may be in flight at once on the factories
NumFTasks == 2
\* resources the factories construct in one behaviour
MaxRes == 3
\* event loops the process goes through
MaxLoops == 2

FTasks == 1..NumFTasks
Loops == 1..MaxLoops
Agents == {"deep_agent"}
Res == 1..MaxRes
\* close calls counted per resource
MaxCloses == 2

\* coroutines that may be in flight at once on the tool-client cache
NumMTasks == 2
\* MultiServerMCPClient objects constructed in one behaviour
MaxClients == 2
\* numbers of healthy MCP servers a query may list
ServerCounts == {0, 1}

MTasks == 1..NumMTasks
Clients == 1..MaxClients

\* coroutines that may be in flight at once on the middleware cache
NumWTasks == 2
\* stage lists get_middleware builds in one behaviour
MaxBuilds == 2
\* edits made to the LLMMiddleware rows in one behaviour
MaxEdits == 1

WTasks == 1..NumWTasks
\* LLMModel ids
MwModels == {1}
\* LLMModel ids that own LLMMiddleware rows
OwnerModels == {1, 2}
\* names of the middleware types, in alphabetical order
StageNames == {"A", "B", "C"}
NameRank == [n \in StageNames |-> IF n = "A" THEN 1 ELSE IF n = "B" THEN 2 ELSE 3]
\* The rows an administrator edits while requests are served.
EditNames == {"A", "B"}
\* The callers of get_middleware: build_agent (multi_mcp_agent.py:288) and
\* build_deep_agent (deep_mcp_agent.py:74).
Callers == {"multi", "deep"}
\* conversation threads and the checkpoint ids of their revisions
Threads == {"t1", "t2"}
CheckpointIds == {"c1"}
\* The keys of MemorySaver.storage as checkpointer.py:149 and 169-176 give
\* them: the tuple (thread_id,) and the tuples (thread_id, checkpoint_id).
BareKey(t) == <<t>>
StorageKeys == {BareKey(t) : t \in Threads}
                   \cup {<<t, c>> : t \in Threads, c \in CheckpointIds}
\* the key of the thread the sweep is run on together with get_middleware
ThreadKeys == {BareKey("t1")}
\* calls of clear_checkpointer_for_thread followed in a row
MaxClearsInRow == 2
\* coroutines that may be in flight at once on the MemorySaver singleton
NumCTasks == 2
CTasks == 1..NumCTasks
\* MemorySaver objects constructed in a behaviour
MaxSavers == 3
\* coroutines of process_message, and the seconds between two looks at the
\* timer of asyncio.wait_for
NumPTasks == 2
PTasks == 1..NumPTasks
PTickStep == 60
\* ttl_minutes the sweep is called with
SweepTtls == {1, 10}

VARIABLES
    now,                        \* datetime.now(), in seconds
    cur_loop,                   \* id(asyncio.get_running_loop())
    \* checkpoint_factory.py module state
    connection_pools, pool_creation_times, redis_checkpointers,
    checkpointer_event_loops, pool_event_loops,
    \* store_factory.py module state
    redis_stores, memory_stores, store_event_loops,
    \* environment read by the factories
    redis_url, auth_method,
    \* the factory the requests of this behaviour ask for
    fmode,
    \* resources constructed so far and the close calls each received
    res_kind, res_loop, closes, next_res,
    \* coroutines of the factories
    ftask,
    \* coroutines of deep_mcp_agent.process_message
    ptask,
    \* helpers/deep_agent/middleware.py: a ToolErrorHandlerMiddleware
    \* (max_retries) and the awrap_tool_call in progress on it
    max_retries, tcall,
    \* one SemanticCacheMiddleware and the calls of its _ensure_cache_initialized
    sem, stask,
    \* one run of the planner/executor workflow: the node to execute next and
    \* its PlanExecuteState
    node, plan_state,
    \* multi_mcp_agent.py: _mcp_client_cache
    mcp_client, mcp_tools, mcp_timestamp, mcp_server_count,
    \* multi_mcp_agent.py: _cache_lock[0], the loop it was made under, the
    \* coroutine holding it and the coroutines waiting for it
    cache_lock_loop, cache_lock_owner, cache_lock_waiters,
    \* clients constructed so far, each with the loop it was constructed under
    client_loop, next_client,
    \* coroutines of the tool-client cache
    mtask,
    \* get_middleware.py: _middleware_cache
    mw_model, mw_middlewares, mw_timestamp, mw_hash,
    \* what a cache with one entry for each model would hold: for each model
    \* the list last built for it, with the hash and the time of that build
    keyed,
    \* get_middleware.py: _cache_lock: the coroutine holding it, the coroutines
    \* waiting for it and the loop it is bound to
    wlock_owner, wlock_waiters, wlock_loop,
    \* LLMMiddleware rows and the edits made to them
    db, edits,
    \* stage lists built so far
    next_build,
    \* coroutines of get_middleware, and the outcome of the call that ended last
    wtask, wlast,
    \* checkpointer.py: _memory_saver_instance, its storage keys and
    \* _checkpoint_timestamps
    memory_saver, storage, checkpoint_timestamps,
    \* the thread clear_checkpointer_for_thread was last called for and what
    \* the calls made for it in a row returned
    thread_clears,
    \* MemorySaver objects constructed so far (the last one is
    \* _memory_saver_instance), the loop the lock in _memory_saver_lock[0] was
    \* made under, and the coroutines of get_checkpointer and
    \* reset_checkpointer of checkpointer.py
    saver_made, saver_lock_loop, ctask,
    \* the synchronous caller of clear_middleware_cache: the checkpoint sweep
    \* or the cache-invalidation job hook
    job

\* state of the agents' middleware and workflows
avars == <<max_retries, tcall, sem, stask, node, plan_state>>

fvars == <<connection_pools, pool_creation_times, redis_checkpointers,
           checkpointer_event_loops, pool_event_loops, redis_stores,
           memory_stores, store_event_loops, redis_url, auth_method, fmode,
           res_kind, res_loop, closes, next_res, ftask, ptask, avars>>

mvars == <<mcp_client, mcp_tools, mcp_timestamp, mcp_server_count,
           cache_lock_loop, cache_lock_owner, cache_lock_waiters,
           client_loop, next_client, mtask>>

svars == <<saver_made, saver_lock_loop, ctask>>

wvars == <<mw_model, mw_middlewares, mw_timestamp, mw_hash, keyed, wlock_owner,
           wlock_waiters, wlock_loop, db, edits, next_build, wtask, wlast,
           memory_saver, storage, checkpoint_timestamps, thread_clears, svars,
           job>>

vars == <<now, cur_loop, fvars, mvars, wvars>>

\* ------------------------------------------------- checkpoint / store factory

\* A coroutine of deep_mcp_agent.process_message: where it is suspended (in
\* build_deep_agent, or in asyncio.wait_for around graph.ainvoke), the await
\* of build_deep_agent it is suspended at, the seconds its wait_for has
\* waited, and what the caller received.
IdleP == [pc |-> "idle", stage |-> 0, waited |-> 0, out |-> NoName]

\* middleware.py:58-68: max_retries of ToolErrorHandlerMiddleware() as
\* constructed without arguments
DefaultMaxRetries == 2

\* middleware.py:82: last_error = None, as the keywords of its message
NoError == [keywords |-> {"None"}]

\* no value returned yet
NoResult == [status |-> NoName, tool_call_id |-> NoName, name |-> NoName,
             content |-> NoError]

\* No tool call is in progress: the request (the id and the name of the
\* tool call; NoName when the tool call has no "name"), the loop index, the
\* invocations of the handler made, the last exception caught and what the
\* call returned.
IdleT == [pc |-> "idle", id |-> NoName, name |-> NoName, attempt |-> 0,
          calls |-> 0, last_error |-> NoError, out |-> NoName, result |-> NoResult]

\* coroutines that call awrap_model_call of the one SemanticCacheMiddleware
NumSTasks == 4
STasks == 1..NumSTasks

\* middleware.py:163-186: SemanticCacheMiddleware.__init__, for either reading
\* of `SEMANTIC_CACHE_REDIS_URL or REDIS_URL`.  lock_owner and lock_waiters
\* are the state of the asyncio.Lock held in _init_lock; constructions counts
\* the entries into the try block that builds the cache and finished those
\* that left it.
NewSemanticCache(url) ==
    [redis_url |-> url, initialized |-> FALSE, cache |-> "None",
     lock_owner |-> 0, lock_waiters |-> <<>>, constructions |-> 0, finished |-> 0]

\* a coroutine outside _ensure_cache_initialized, with what its last call
\* returned
IdleS == [pc |-> "idle", ret |-> NoName]

\* state_models.py:71-126: a PlanExecuteState as the workflow is invoked with
\* it.  A plan is the sequence of its step numbers; steps counts the nodes
\* executed.
NewPlanExecuteState(plan) ==
    [plan |-> plan, current_step_index |-> 0, execution_results |-> <<>>,
     replanning_count |-> 0, error_count |-> 0, workflow_status |-> "initialized",
     steps |-> 0]

\* No workflow runs.
WorkflowAtRest ==
    /\ node = NoName
    /\ plan_state = NewPlanExecuteState(<<>>)

\* The agents' middleware before its first use.
AgentsAtRest ==
    /\ max_retries = DefaultMaxRetries
    /\ tcall = IdleT
    /\ sem = NewSemanticCache(FALSE)
    /\ stask = [t \in STasks |-> IdleS]
    /\ WorkflowAtRest

IdleF == [pc |-> "idle", op |-> NoName, agent |-> NoName, new |-> 0, ret |-> 0,
          cold |-> FALSE, mism |-> NoName, old |-> 0, out |-> NoName, pre |-> {}]

InitFactoryState ==
    /\ connection_pools = [a \in Agents |-> None]
    /\ pool_creation_times = [a \in Agents |-> None]
    /\ redis_checkpointers = [a \in Agents |-> None]
    /\ checkpointer_event_loops = [a \in Agents |-> None]
    /\ pool_event_loops = [a \in Agents |-> None]
    /\ redis_stores = [a \in Agents |-> None]
    /\ memory_stores = [a \in Agents |-> None]
    /\ store_event_loops = [a \in Agents |-> None]
    /\ redis_url \in BOOLEAN
    /\ fmode \in {"get_checkpointer", "get_store"}
    /\ auth_method \in IF fmode = "get_checkpointer"
                       THEN {"basic", "service_principal"} ELSE {"basic"}
    /\ res_kind = [r \in Res |-> NoName]
    /\ res_loop = [r \in Res |-> 0]
    /\ closes = [r \in Res |-> 0]
    /\ next_res = 1
    /\ ftask = [t \in FTasks |-> IdleF]
    /\ ptask = [t \in PTasks |-> IdleP]

InitFactory == InitFactoryState /\ AgentsAtRest

\* A call is started only while a resource id is left.
CanStart == next_res <= MaxRes

\* A constructor call: the next resource id, of the given kind, built under
\* the running loop; no more than MaxRes resources are constructed in a run.
Construct(kind) ==
    /\ next_res <= MaxRes
    /\ res_kind' = [res_kind EXCEPT ![next_res] = kind]
    /\ res_loop' = [res_loop EXCEPT ![next_res] = cur_loop]
    /\ next_res' = next_res + 1

NoConstruct == UNCHANGED <<res_kind, res_loop, next_res>>

\* aclose() / close() invoked on a resource; the count stops at MaxCloses
CloseCall(r) == closes' = [closes EXCEPT ![r] = IF @ < MaxCloses THEN @ + 1 ELSE @]

UnchangedCkptMaps ==
    UNCHANGED <<connection_pools, pool_creation_times, redis_checkpointers,
                checkpointer_event_loops, pool_event_loops>>

UnchangedStoreMaps == UNCHANGED <<redis_stores, memory_stores, store_event_loops>>

UnchangedEnv ==
    UNCHANGED <<redis_url, auth_method, fmode, ptask, avars, now, cur_loop, mvars,
                wvars>>

\* The call is not made under the loop recorded for the cached resource
\* (checkpoint_factory.py:161 and 206, store_factory.py:95); inside a
\* coroutine the running loop's id is never None.
LoopChangedIgnored(stored) == FALSE

LoopChanged(stored) == stored # None /\ stored # cur_loop

\* The task record of a call that has returned `r`.
Returned(tk, r) ==
    [IdleF EXCEPT !.pc = "done", !.op = tk.op, !.agent = tk.agent, !.ret = r,
                  !.out = "ok", !.cold = tk.cold, !.mism = tk.mism]

\* The task record of a call that has raised.
Raised(tk) ==
    [IdleF EXCEPT !.pc = "done", !.op = tk.op, !.agent = tk.agent,
                  !.out = "raised", !.cold = tk.cold, !.mism = tk.mism]

\* checkpoint_factory.py:235-262: no pool for the agent: build one and await
\* pool.open(); a pool in the map: wrap it and await checkpointer.setup().
PgCreateOrUse(t, tk, pools) ==
    IF pools[tk.agent] = None
    THEN /\ Construct("pool")
         /\ pool_creation_times' =
                IF auth_method = "service_principal"
                THEN [pool_creation_times EXCEPT ![tk.agent] = now]
                ELSE pool_creation_times
         /\ ftask' = [ftask EXCEPT ![t] =
                [tk EXCEPT !.pc = "p_open", !.new = next_res, !.cold = TRUE]]
    ELSE /\ NoConstruct
         /\ UNCHANGED pool_creation_times
         /\ ftask' = [ftask EXCEPT ![t] =
                [tk EXCEPT !.pc = "p_setup", !.new = pools[tk.agent]]]

AzureMaxAge == 2700

\* checkpoint_factory.py:222-229: a service-principal pool older than 45
\* minutes is closed (await) before it is replaced.
PgAzure(t, tk) ==
    LET a == tk.agent
        born == IF pool_creation_times[a] = None THEN now ELSE pool_creation_times[a]
    IN  IF /\ auth_method = "service_principal"
           /\ connection_pools[a] # None
           /\ now - born > AzureMaxAge
        THEN /\ CloseCall(connection_pools[a])
             /\ NoConstruct
             /\ UNCHANGED <<connection_pools, pool_creation_times, pool_event_loops>>
             /\ ftask' = [ftask EXCEPT ![t] =
                    [tk EXCEPT !.pc = "p_close_azure", !.old = connection_pools[a]]]
        ELSE /\ PgCreateOrUse(t, tk, connection_pools)
             /\ UNCHANGED <<connection_pools, pool_event_loops, closes>>

\* checkpoint_factory.py:192-213: the PostgreSQL fallback up to its first
\* await: a pool recorded under another loop is closed (await) first.
PgEnter(t, tk) ==
    LET a == tk.agent IN
    IF connection_pools[a] # None /\ LoopChanged(pool_event_loops[a])
    THEN /\ CloseCall(connection_pools[a])
         /\ NoConstruct
         /\ UNCHANGED <<connection_pools, pool_creation_times, pool_event_loops>>
         /\ ftask' = [ftask EXCEPT ![t] =
                [tk EXCEPT !.pc = "p_close_old",
                           !.mism = IF tk.mism = NoName THEN "pool" ELSE tk.mism,
                           !.old = connection_pools[a]]]
    ELSE PgAzure(t, tk)

\* The checkpoint maps that hold an entry for the agent
\* (checkpoint_factory.py:25-36).
CkptEntries(a) ==
    {m \in {"redis_checkpointers", "connection_pools", "pool_creation_times",
            "checkpointer_event_loops", "pool_event_loops"} :
        CASE m = "redis_checkpointers" -> redis_checkpointers[a] # None
          [] m = "connection_pools" -> connection_pools[a] # None
          [] m = "pool_creation_times" -> pool_creation_times[a] # None
          [] m = "checkpointer_event_loops" -> checkpointer_event_loops[a] # None
          [] OTHER -> pool_event_loops[a] # None}

\* checkpoint_factory.py:85-190, up to the first await; `pre` keeps, for the
\* length of the call, which maps held an entry for the agent when it began.
GetCheckpointerCall(t, a) ==
    LET tk == [IdleF EXCEPT !.op = "get_checkpointer", !.agent = a,
                            !.pre = CkptEntries(a)] IN
    /\ ftask[t].pc \in {"idle", "done"}
    /\ CanStart
    /\ fmode = "get_checkpointer"
    /\ UNCHANGED <<redis_checkpointers, checkpointer_event_loops>>
    /\ UnchangedStoreMaps /\ UnchangedEnv
    /\ IF redis_url
       THEN IF redis_checkpointers[a] = None
            THEN /\ Construct("redis_saver")
                 /\ ftask' = [ftask EXCEPT ![t] =
                        [tk EXCEPT !.pc = "r_setup", !.new = next_res, !.cold = TRUE]]
                 /\ UNCHANGED <<connection_pools, pool_creation_times,
                                pool_event_loops, closes>>
            ELSE IF LoopChanged(checkpointer_event_loops[a])
                 THEN /\ CloseCall(redis_checkpointers[a])
                      /\ NoConstruct
                      /\ ftask' = [ftask EXCEPT ![t] =
                             [tk EXCEPT !.pc = "r_close_old", !.mism = "redis_saver",
                                        !.old = redis_checkpointers[a]]]
                      /\ UNCHANGED <<connection_pools, pool_creation_times,
                                     pool_event_loops>>
                 ELSE /\ ftask' = [ftask EXCEPT ![t] =
                             Returned(tk, redis_checkpointers[a])]
                      /\ NoConstruct
                      /\ UNCHANGED <<connection_pools, pool_creation_times,
                                     pool_event_loops, closes>>
       ELSE PgEnter(t, tk)

\* How the construction of a Redis backend ends (checkpoint_factory.py:134-157,
\* store_factory.py:68-91): it succeeds, it raises an authentication error in
\* a DEV environment (`is_dev and is_auth_error`), or it raises anything else.
SetupOutcomes == {"ok", "dev_auth_error", "error"}

\* checkpoint_factory.py:136-157: asetup() of a new saver returns or raises;
\* both branches of the handler log the failure and fall through to
\* PostgreSQL.
RedisSetupEnded(t, how) ==
    LET tk == ftask[t]  a == tk.agent IN
    /\ tk.pc = "r_setup"
    /\ UnchangedStoreMaps /\ UnchangedEnv
    /\ IF how = "ok"
       THEN /\ redis_checkpointers' = [redis_checkpointers EXCEPT ![a] = tk.new]
            /\ checkpointer_event_loops' =
                   [checkpointer_event_loops EXCEPT ![a] = cur_loop]
            /\ ftask' = [ftask EXCEPT ![t] = Returned(tk, tk.new)]
            /\ NoConstruct
            /\ UNCHANGED <<connection_pools, pool_creation_times, pool_event_loops,
                           closes>>
       ELSE /\ UNCHANGED <<redis_checkpointers, checkpointer_event_loops>>
            /\ PgEnter(t, [tk EXCEPT !.cold = FALSE])

RedisSetupDone(t) == \E how \in SetupOutcomes : RedisSetupEnded(t, how)

\* (a close of the old resource outside any try block)
OldCloseUnguarded == FALSE

\* checkpoint_factory.py:170-174 and 214-217, store_factory.py:104-108: the
\* close of the resource of another loop is inside `try ... except Exception`,
\* whose handler logs the error.
OldCloseGuarded == TRUE

\* checkpoint_factory.py:169-176: the old saver's aclose() has returned or
\* raised (the error is logged and dropped); a new saver is built and
\* asetup() awaited.
RedisCloseOldEnded(t, raised) ==
    LET tk == ftask[t] IN
    /\ tk.pc = "r_close_old"
    /\ IF raised /\ ~OldCloseGuarded
       THEN /\ NoConstruct
            /\ ftask' = [ftask EXCEPT ![t] = Raised(tk)]
       ELSE /\ Construct("redis_saver")
            /\ ftask' = [ftask EXCEPT ![t] =
                   [tk EXCEPT !.pc = "r_resetup", !.new = next_res]]
    /\ UNCHANGED closes
    /\ UnchangedCkptMaps /\ UnchangedStoreMaps /\ UnchangedEnv

RedisCloseOldDone(t) == \E raised \in BOOLEAN : RedisCloseOldEnded(t, raised)

\* checkpoint_factory.py:176-187: asetup() of the replacement returns or
\* raises; on failure the map entries are deleted (KeyError when another
\* coroutine has deleted them) and PostgreSQL is tried.
RedisResetupDone(t) ==
    LET tk == ftask[t]  a == tk.agent IN
    /\ tk.pc = "r_resetup"
    /\ UnchangedStoreMaps /\ UnchangedEnv
    /\ \/ /\ redis_checkpointers' = [redis_checkpointers EXCEPT ![a] = tk.new]
          /\ checkpointer_event_loops' = [checkpointer_event_loops EXCEPT ![a] = cur_loop]
          /\ ftask' = [ftask EXCEPT ![t] = Returned(tk, tk.new)]
          /\ NoConstruct
          /\ UNCHANGED <<connection_pools, pool_creation_times, pool_event_loops, closes>>
       \/ IF redis_checkpointers[a] = None \/ checkpointer_event_loops[a] = None
          THEN /\ redis_checkpointers' = [redis_checkpointers EXCEPT ![a] = None]
               /\ UNCHANGED checkpointer_event_loops
               /\ ftask' = [ftask EXCEPT ![t] = Raised(tk)]
               /\ NoConstruct
               /\ UNCHANGED <<connection_pools, pool_creation_times,
                              pool_event_loops, closes>>
          ELSE /\ redis_checkpointers' = [redis_checkpointers EXCEPT ![a] = None]
               /\ checkpointer_event_loops' = [checkpointer_event_loops EXCEPT ![a] = None]
               /\ PgEnter(t, tk)

\* checkpoint_factory.py:213-221 and 235-260: the old pool's close() has
\* returned or raised (the error is logged and dropped); its entries are
\* deleted (KeyError when another coroutine has deleted them) and a new pool
\* is built.
PoolCloseOldEnded(t, raised) ==
    LET tk == ftask[t]  a == tk.agent IN
    /\ tk.pc = "p_close_old"
    /\ UNCHANGED <<closes, redis_checkpointers, checkpointer_event_loops>>
    /\ UnchangedStoreMaps /\ UnchangedEnv
    /\ IF (raised /\ ~OldCloseGuarded) \/ connection_pools[a] = None
       THEN /\ ftask' = [ftask EXCEPT ![t] = Raised(tk)]
            /\ NoConstruct
            /\ UNCHANGED <<connection_pools, pool_creation_times, pool_event_loops>>
       ELSE /\ connection_pools' = [connection_pools EXCEPT ![a] = None]
            /\ pool_event_loops' = [pool_event_loops EXCEPT ![a] = None]
            /\ Construct("pool")
            /\ pool_creation_times' = [pool_creation_times EXCEPT ![a] =
                   IF auth_method = "service_principal" THEN now ELSE None]
            /\ ftask' = [ftask EXCEPT ![t] =
                   [tk EXCEPT !.pc = "p_open", !.new = next_res]]

PoolCloseOldDone(t) == \E raised \in BOOLEAN : PoolCloseOldEnded(t, raised)

\* checkpoint_factory.py:229-260: close() of the aged pool returns (or raises,
\* which ends the call); its entries are deleted and a new pool is built.
PoolCloseAzureDone(t) ==
    LET tk == ftask[t]  a == tk.agent IN
    /\ tk.pc = "p_close_azure"
    /\ UNCHANGED <<closes, redis_checkpointers, checkpointer_event_loops>>
    /\ UnchangedStoreMaps /\ UnchangedEnv
    /\ \/ /\ ftask' = [ftask EXCEPT ![t] = Raised(tk)]
          /\ NoConstruct
          /\ UNCHANGED <<connection_pools, pool_creation_times, pool_event_loops>>
       \/ IF connection_pools[a] = None
          THEN /\ ftask' = [ftask EXCEPT ![t] = Raised(tk)]
               /\ NoConstruct
               /\ UNCHANGED <<connection_pools, pool_creation_times, pool_event_loops>>
          ELSE IF pool_creation_times[a] = None
          THEN /\ connection_pools' = [connection_pools EXCEPT ![a] = None]
               /\ ftask' = [ftask EXCEPT ![t] = Raised(tk)]
               /\ NoConstruct
               /\ UNCHANGED <<pool_creation_times, pool_event_loops>>
          ELSE /\ connection_pools' = [connection_pools EXCEPT ![a] = None]
               /\ pool_event_loops' = [pool_event_loops EXCEPT ![a] = None]
               /\ Construct("pool")
               /\ pool_creation_times' = [pool_creation_times EXCEPT ![a] = now]
               /\ ftask' = [ftask EXCEPT ![t] =
                      [tk EXCEPT !.pc = "p_open", !.new = next_res]]

\* checkpoint_factory.py:260-270: pool.open() returns or raises; an opened
\* pool is stored with the running loop's id and wrapped in a saver.
PoolOpenDone(t) ==
    LET tk == ftask[t]  a == tk.agent IN
    /\ tk.pc = "p_open"
    /\ UNCHANGED <<closes, redis_checkpointers, checkpointer_event_loops,
                   pool_creation_times>>
    /\ NoConstruct /\ UnchangedStoreMaps /\ UnchangedEnv
    /\ \/ /\ connection_pools' = [connection_pools EXCEPT ![a] = tk.new]
          /\ pool_event_loops' = [pool_event_loops EXCEPT ![a] = cur_loop]
          /\ ftask' = [ftask EXCEPT ![t] = [tk EXCEPT !.pc = "p_setup"]]
       \/ /\ UNCHANGED <<connection_pools, pool_event_loops>>
          /\ ftask' = [ftask EXCEPT ![t] = Raised(tk)]

\* checkpoint_factory.py:269-272: checkpointer.setup() returns or raises; the
\* saver returned wraps the pool read at line 269.
PoolSetupDone(t) ==
    LET tk == ftask[t] IN
    /\ tk.pc = "p_setup"
    /\ UNCHANGED closes
    /\ NoConstruct /\ UnchangedCkptMaps /\ UnchangedStoreMaps /\ UnchangedEnv
    /\ \/ ftask' = [ftask EXCEPT ![t] = Returned(tk, tk.new)]
       \/ ftask' = [ftask EXCEPT ![t] = Raised(tk)]

\* store_factory.py:126-137: the InMemoryStore fallback; nothing is awaited.
MemEnter(t, tk) ==
    LET a == tk.agent IN
    IF memory_stores[a] = None
    THEN /\ Construct("memory_store")
         /\ memory_stores' = [memory_stores EXCEPT ![a] = next_res]
         /\ ftask' = [ftask EXCEPT ![t] = Returned(tk, next_res)]
    ELSE /\ NoConstruct
         /\ UNCHANGED memory_stores
         /\ ftask' = [ftask EXCEPT ![t] = Returned(tk, memory_stores[a])]

\* store_factory.py:30-124, up to the first await.
GetStoreCall(t, a) ==
    LET tk == [IdleF EXCEPT !.op = "get_store", !.agent = a] IN
    /\ ftask[t].pc \in {"idle", "done"}
    /\ CanStart
    /\ fmode = "get_store"
    /\ UNCHANGED <<redis_stores, store_event_loops>>
    /\ UnchangedCkptMaps /\ UnchangedEnv
    /\ IF redis_url
       THEN IF redis_stores[a] = None
            THEN /\ Construct("redis_store")
                 /\ ftask' = [ftask EXCEPT ![t] =
                        [tk EXCEPT !.pc = "s_setup", !.new = next_res, !.cold = TRUE]]
                 /\ UNCHANGED <<memory_stores, closes>>
            ELSE IF LoopChanged(store_event_loops[a])
                 THEN /\ CloseCall(redis_stores[a])
                      /\ NoConstruct
                      /\ ftask' = [ftask EXCEPT ![t] =
                             [tk EXCEPT !.pc = "s_close_old", !.mism = "redis_store",
                                        !.old = redis_stores[a]]]
                      /\ UNCHANGED memory_stores
                 ELSE /\ ftask' = [ftask EXCEPT ![t] = Returned(tk, redis_stores[a])]
                      /\ NoConstruct
                      /\ UNCHANGED <<memory_stores, closes>>
       ELSE /\ MemEnter(t, tk)
            /\ UNCHANGED closes

\* store_factory.py:70-91: setup() of a new store returns or raises; both
\* branches of the handler log the failure and fall through to the
\* InMemoryStore.
StoreSetupEnded(t, how) ==
    LET tk == ftask[t]  a == tk.agent IN
    /\ tk.pc = "s_setup"
    /\ UNCHANGED closes /\ UnchangedCkptMaps /\ UnchangedEnv
    /\ IF how = "ok"
       THEN /\ redis_stores' = [redis_stores EXCEPT ![a] = tk.new]
            /\ store_event_loops' = [store_event_loops EXCEPT ![a] = cur_loop]
            /\ ftask' = [ftask EXCEPT ![t] = Returned(tk, tk.new)]
            /\ NoConstruct
            /\ UNCHANGED memory_stores
       ELSE /\ UNCHANGED <<redis_stores, store_event_loops>>
            /\ MemEnter(t, [tk EXCEPT !.cold = FALSE])

StoreSetupDone(t) == \E how \in SetupOutcomes : StoreSetupEnded(t, how)

\* store_factory.py:103-110: the old store's aclose() has returned or raised
\* (the error is logged and dropped); a new store is built and setup()
\* awaited.
StoreCloseOldEnded(t, raised) ==
    LET tk == ftask[t] IN
    /\ tk.pc = "s_close_old"
    /\ IF raised /\ ~OldCloseGuarded
       THEN /\ NoConstruct
            /\ ftask' = [ftask EXCEPT ![t] = Raised(tk)]
       ELSE /\ Construct("redis_store")
            /\ ftask' = [ftask EXCEPT ![t] =
                   [tk EXCEPT !.pc = "s_resetup", !.new = next_res]]
    /\ UNCHANGED closes
    /\ UnchangedCkptMaps /\ UnchangedStoreMaps /\ UnchangedEnv

StoreCloseOldDone(t) == \E raised \in BOOLEAN : StoreCloseOldEnded(t, raised)

\* store_factory.py:110-121: setup() of the replacement returns or raises; on
\* failure the map entries are deleted (KeyError when another coroutine has
\* deleted them) and the InMemoryStore is used.
StoreResetupDone(t) ==
    LET tk == ftask[t]  a == tk.agent IN
    /\ tk.pc = "s_resetup"
    /\ UNCHANGED closes /\ UnchangedCkptMaps /\ UnchangedEnv
    /\ \/ /\ redis_stores' = [redis_stores EXCEPT ![a] = tk.new]
          /\ store_event_loops' = [store_event_loops EXCEPT ![a] = cur_loop]
          /\ ftask' = [ftask EXCEPT ![t] = Returned(tk, tk.new)]
          /\ NoConstruct
          /\ UNCHANGED memory_stores
       \/ IF redis_stores[a] = None \/ store_event_loops[a] = None
          THEN /\ redis_stores' = [redis_stores EXCEPT ![a] = None]
               /\ UNCHANGED <<store_event_loops, memory_stores>>
               /\ ftask' = [ftask EXCEPT ![t] = Raised(tk)]
               /\ NoConstruct
          ELSE /\ redis_stores' = [redis_stores EXCEPT ![a] = None]
               /\ store_event_loops' = [store_event_loops EXCEPT ![a] = None]
               /\ MemEnter(t, tk)

\* The kinds of resource whose close is awaited at shutdown.
Closable == {"redis_saver", "pool", "redis_store"}

\* deep_mcp_agent.py:360-382, checkpoint_factory.py:275-299 and
\* store_factory.py:140-158: shutdown_deep_agent() with no factory call in
\* flight.  `fail` holds the kinds of resource whose close raises.  The maps
\* hold the deep agent's entries.  close_all_pools awaits aclose() of the
\* cached saver, clears the saver maps, awaits close() of the cached pool and
\* clears the pool maps; close_all_stores awaits aclose() of the cached
\* store and clears the store maps.  No close is guarded: the first one that
\* raises ends the routine it is in, and the single try block of
\* shutdown_deep_agent (lines 372-382) logs the error and returns, so what
\* follows the raising close is not executed.
ShutdownDeepAgent(fail) ==
    LET a == CHOOSE x \in Agents : TRUE
        saver == redis_checkpointers[a]
        pool == connection_pools[a]
        store == redis_stores[a]
        saverRaises == saver # None /\ "redis_saver" \in fail
        poolRaises == pool # None /\ "pool" \in fail
        storeRaises == store # None /\ "redis_store" \in fail
        poolsReached == ~saverRaises
        storesReached == ~saverRaises /\ ~poolRaises
        closed == {r \in Res :
                      \/ r = saver
                      \/ r = pool /\ poolsReached
                      \/ r = store /\ storesReached}
        Cleared(map, cond) == IF cond THEN [x \in Agents |-> None] ELSE map
    IN  /\ \A t \in FTasks : ftask[t].pc \in {"idle", "done"}
        /\ closes' = [r \in Res |->
               IF r \in closed /\ closes[r] < MaxCloses
               THEN closes[r] + 1 ELSE closes[r]]
        /\ redis_checkpointers' = Cleared(redis_checkpointers, ~saverRaises)
        /\ checkpointer_event_loops' =
               Cleared(checkpointer_event_loops, ~saverRaises)
        /\ connection_pools' = Cleared(connection_pools, storesReached)
        /\ pool_creation_times' = Cleared(pool_creation_times, storesReached)
        /\ pool_event_loops' = Cleared(pool_event_loops, storesReached)
        /\ redis_stores' = Cleared(redis_stores, storesReached /\ ~storeRaises)
        /\ store_event_loops' =
               Cleared(store_event_loops, storesReached /\ ~storeRaises)
        /\ memory_stores' = Cleared(memory_stores, storesReached /\ ~storeRaises)
        /\ NoConstruct
        /\ UNCHANGED ftask
        /\ UnchangedEnv

\* ------------------------------------------------------ MCP tool-client cache

\* multi_mcp_agent.py:74: the TTL used when the default model cannot be read
FallbackTtl == 300
\* values of LLMModel.cache_ttl, in seconds
CacheTtls == {60}

\* A coroutine of get_or_create_mcp_client: its locals (force_refresh, now,
\* the client under construction), what it found cached (the client, and
\* whether the entry was younger than the TTL), whether it was called on an
\* empty cache, the server queries and constructor calls it made, the number
\* of servers it found, how its lookup of the TTL ended, and what it
\* returned.  For a coroutine of clear_mcp_cache: the count it returned.
NoLookup == [raised |-> FALSE, ttl |-> None]

IdleM == [pc |-> "idle", force |-> FALSE, cold |-> FALSE, now |-> None,
          seen |-> None, young |-> FALSE, q |-> 0, c |-> 0,
          nsrv |-> None, new |-> None, ret |-> None, tools |-> None,
          out |-> NoName, cleared |-> None, lookup |-> NoLookup]

\* The record of a call that has returned: the locals are gone.
ReturnedM(tk, client, tools, out) ==
    [tk EXCEPT !.pc = "done", !.now = None, !.new = None, !.ret = client,
               !.tools = tools, !.out = out]

\* The tool list: None, the empty list, or the list discovered by client c.
NoTools == 0

InitMcp ==
    /\ mcp_client = None
    /\ mcp_tools = None
    /\ mcp_timestamp = None
    /\ mcp_server_count = 0
    /\ cache_lock_loop = None
    /\ cache_lock_owner = 0
    /\ cache_lock_waiters = <<>>
    /\ client_loop = [c \in Clients |-> 0]
    /\ next_client = 1
    /\ mtask = [t \in MTasks |-> IdleM]

UnchangedMcpCache ==
    UNCHANGED <<mcp_client, mcp_tools, mcp_timestamp, mcp_server_count>>

UnchangedMcpEnv ==
    UNCHANGED <<now, cur_loop, fvars, wvars>>

\* multi_mcp_agent.py:77-79: the cached client is used when the call does not
\* force a refresh, a client is cached and its age is below the TTL.
CacheValidNever(force, client, timestamp, tnow, ttl) == FALSE

CacheValidNoTtl(force, client, timestamp, tnow, ttl) ==
    ~force /\ client # None

\* (a check that forgets force_refresh)
CacheValidIgnoresForce(force, client, timestamp, tnow, ttl) ==
    /\ client # None
    /\ tnow - timestamp < ttl

CacheValid(force, client, timestamp, tnow, ttl) ==
    /\ ~force
    /\ client # None
    /\ tnow - timestamp < ttl

\* multi_mcp_agent.py:98-105 and 167-174: the entry stored when no server is
\* healthy or the construction failed.
NegativeEntry(tnow) ==
    /\ mcp_client' = None
    /\ mcp_tools' = NoTools
    /\ mcp_timestamp' = tnow
    /\ mcp_server_count' = 0

\* get_or_create_event_loop_lock(_cache_lock, "mcp_cache_lock"): the lock in
\* the holder when it was made under the running loop, else a new, free lock
\* that replaces it.
LockIsCurrent == cache_lock_loop = cur_loop

LockOwnerNow == IF LockIsCurrent THEN cache_lock_owner ELSE 0

LockWaitersNow == IF LockIsCurrent THEN cache_lock_waiters ELSE <<>>

\* asyncio.Lock.acquire(): taken at once when the lock is free and nobody
\* waits, else the caller queues behind the waiters.
AcquireOrWait(t, owner, waiters) ==
    IF owner = 0 /\ waiters = <<>>
    THEN /\ cache_lock_owner' = t
         /\ cache_lock_waiters' = waiters
    ELSE /\ cache_lock_owner' = owner
         /\ cache_lock_waiters' = Append(waiters, t)

\* asyncio.Lock.release() at the end of `async with lock`.
Release == cache_lock_owner' = 0

\* multi_mcp_agent.py:48-62: the call takes the lock of the running loop and
\* reads the clock, or waits for the lock.
GetOrCreateMcpClientCall(t, force) ==
    LET tk == mtask[t]
        free == LockOwnerNow = 0 /\ LockWaitersNow = <<>>
        call == [IdleM EXCEPT !.force = force,
                              !.cold = (mcp_client = None /\ mcp_timestamp = None)]
    IN
    /\ tk.pc \in {"idle", "done"}
    /\ next_client <= MaxClients
    /\ cache_lock_loop' = cur_loop
    /\ AcquireOrWait(t, LockOwnerNow, LockWaitersNow)
    /\ mtask' = [mtask EXCEPT ![t] =
           IF free THEN [call EXCEPT !.pc = "m_ttl", !.now = now]
                   ELSE [call EXCEPT !.pc = "m_wait"]]
    /\ UNCHANGED <<client_loop, next_client>>
    /\ UnchangedMcpCache /\ UnchangedMcpEnv

\* multi_mcp_agent.py:61-62: the waiter at the head of the queue gets the
\* released lock and reads the clock.
McpLockAcquired(t) ==
    LET tk == mtask[t] IN
    /\ tk.pc = "m_wait"
    /\ cache_lock_owner = 0
    /\ cache_lock_waiters # <<>>
    /\ Head(cache_lock_waiters) = t
    /\ cache_lock_owner' = t
    /\ cache_lock_waiters' = Tail(cache_lock_waiters)
    /\ mtask' = [mtask EXCEPT ![t] = [tk EXCEPT !.pc = "m_ttl", !.now = now]]
    /\ UNCHANGED <<cache_lock_loop, client_loop, next_client>>
    /\ UnchangedMcpCache /\ UnchangedMcpEnv

\* multi_mcp_agent.py:64-81: the lookup of the default model's cache_ttl has
\* ended and the call uses `ttl`; a valid entry is returned, else the servers
\* are queried.
McpTtlChecked(t, ttl, lookup) ==
    LET tk == mtask[t]
        seen == [tk EXCEPT !.seen = mcp_client,
                           !.lookup = lookup,
                           !.young = (mcp_timestamp # None
                                      /\ tk.now - mcp_timestamp < ttl)]
    IN
    /\ tk.pc = "m_ttl"
    /\ IF CacheValid(tk.force, mcp_client, mcp_timestamp, tk.now, ttl)
       THEN /\ mtask' = [mtask EXCEPT ![t] =
                   ReturnedM(seen, mcp_client, mcp_tools, "cached")]
            /\ Release
       ELSE /\ mtask' = [mtask EXCEPT ![t] = [seen EXCEPT !.pc = "m_query"]]
            /\ UNCHANGED cache_lock_owner
    /\ UNCHANGED <<cache_lock_loop, cache_lock_waiters, client_loop, next_client>>
    /\ UnchangedMcpCache /\ UnchangedMcpEnv

\* The call uses `ttl`: the default model's cache_ttl, or 300 when the lookup
\* failed.
McpTtlRead(t, ttl) == McpTtlChecked(t, ttl, NoLookup)

\* multi_mcp_agent.py:65-74: how the lookup of the default model's cache_ttl
\* ends: LLMModel.get_default_model raises, or the model's cache_ttl.
TtlLookups ==
    {[raised |-> TRUE, ttl |-> None]}
        \cup {[raised |-> FALSE, ttl |-> s] : s \in CacheTtls}

\* (a lookup whose failure leaves no TTL)
EffectiveTtlNoFallback(lookup) == lookup.ttl

\* multi_mcp_agent.py:70-74: cache_ttl_seconds
EffectiveTtl(lookup) == IF lookup.raised THEN FallbackTtl ELSE lookup.ttl

\* multi_mcp_agent.py:64-81: the lookup has ended and the validity check is
\* made with the TTL it gives.
McpTtlLookedUp(t, lookup) == McpTtlChecked(t, EffectiveTtl(lookup), lookup)

\* multi_mcp_agent.py:84-95 and 165-175: the query for the healthy servers
\* raised; the negative entry is stored and (None, []) returned.
McpQueryRaised(t) ==
    LET tk == [mtask[t] EXCEPT !.q = 1] IN
    /\ tk.pc = "m_query"
    /\ NegativeEntry(tk.now)
    /\ Release
    /\ mtask' = [mtask EXCEPT ![t] = ReturnedM(tk, None, NoTools, "failed")]
    /\ UNCHANGED <<cache_lock_loop, cache_lock_waiters, client_loop, next_client>>
    /\ UnchangedMcpEnv

\* multi_mcp_agent.py:84-136: the query listed n healthy servers; with no
\* server the negative entry is stored and (None, []) returned, else the
\* client is constructed and asked for its tools.
McpServersQueried(t, n) ==
    LET tk == [mtask[t] EXCEPT !.q = 1] IN
    /\ tk.pc = "m_query"
    /\ \/ /\ n = 0
          /\ NegativeEntry(tk.now)
          /\ Release
          /\ mtask' = [mtask EXCEPT ![t] =
                 ReturnedM([tk EXCEPT !.nsrv = 0], None, NoTools, "no_servers")]
          /\ UNCHANGED <<client_loop, next_client>>
       \/ /\ n > 0
          /\ next_client <= MaxClients
          /\ client_loop' = [client_loop EXCEPT ![next_client] = cur_loop]
          /\ next_client' = next_client + 1
          /\ mtask' = [mtask EXCEPT ![t] =
                 [tk EXCEPT !.pc = "m_tools", !.c = 1, !.nsrv = n,
                            !.new = next_client]]
          /\ UNCHANGED cache_lock_owner
          /\ UnchangedMcpCache
    /\ UNCHANGED <<cache_lock_loop, cache_lock_waiters>>
    /\ UnchangedMcpEnv

\* multi_mcp_agent.py:136-175: client.get_tools() has returned and the entry
\* is replaced, with the time read at line 62; or it raised and the negative
\* entry is stored.
McpToolsDone(t) ==
    LET tk == mtask[t] IN
    /\ tk.pc = "m_tools"
    /\ \/ /\ mcp_client' = tk.new
          /\ mcp_tools' = tk.new
          /\ mcp_timestamp' = tk.now
          /\ mcp_server_count' = tk.nsrv
          /\ mtask' = [mtask EXCEPT ![t] = ReturnedM(tk, tk.new, tk.new, "built")]
       \/ /\ NegativeEntry(tk.now)
          /\ mtask' = [mtask EXCEPT ![t] = ReturnedM(tk, None, NoTools, "failed")]
    /\ Release
    /\ UNCHANGED <<cache_lock_loop, cache_lock_waiters, client_loop, next_client>>
    /\ UnchangedMcpEnv

\* (a reset that keeps the server count)
McpCacheResetKeepsCount ==
    /\ mcp_client' = None
    /\ mcp_tools' = None
    /\ mcp_timestamp' = None
    /\ UNCHANGED mcp_server_count

\* multi_mcp_agent.py:209-216: the cache is reset
McpCacheReset ==
    /\ mcp_client' = None
    /\ mcp_tools' = None
    /\ mcp_timestamp' = None
    /\ mcp_server_count' = 0

\* multi_mcp_agent.py:198-219: the body of clear_mcp_cache under the lock; it
\* has no await, so it runs in the step that gets the lock.
ClearMcpCacheBody(t) ==
    /\ mtask' = [mtask EXCEPT ![t] =
           [IdleM EXCEPT !.pc = "done", !.out = "cleared",
                         !.cleared = mcp_server_count]]
    /\ McpCacheReset

\* multi_mcp_agent.py:188-219: clear_mcp_cache takes the lock of the running
\* loop, clears the cache and returns, or waits for the lock.
ClearMcpCacheCall(t) ==
    LET tk == mtask[t]
        free == LockOwnerNow = 0 /\ LockWaitersNow = <<>>
    IN
    /\ tk.pc \in {"idle", "done"}
    /\ cache_lock_loop' = cur_loop
    /\ IF free
       THEN /\ ClearMcpCacheBody(t)
            /\ cache_lock_owner' = 0
            /\ cache_lock_waiters' = <<>>
       ELSE /\ AcquireOrWait(t, LockOwnerNow, LockWaitersNow)
            /\ mtask' = [mtask EXCEPT ![t] = [IdleM EXCEPT !.pc = "c_wait"]]
            /\ UnchangedMcpCache
    /\ UNCHANGED <<client_loop, next_client>>
    /\ UnchangedMcpEnv

\* multi_mcp_agent.py:198-219: the waiter at the head of the queue gets the
\* released lock, clears the cache and returns.
ClearMcpLockAcquired(t) ==
    /\ mtask[t].pc = "c_wait"
    /\ cache_lock_owner = 0
    /\ cache_lock_waiters # <<>>
    /\ Head(cache_lock_waiters) = t
    /\ cache_lock_waiters' = Tail(cache_lock_waiters)
    /\ ClearMcpCacheBody(t)
    /\ UNCHANGED <<cache_lock_owner, cache_lock_loop, client_loop, next_client>>
    /\ UnchangedMcpEnv

\* multi_mcp_agent.py:58-61 and 177-185: `async with lock` of
\* get_or_create_mcp_client raises.  The shutdown RuntimeError is answered
\* with (None, []) and the cache is left as it is; another RuntimeError is
\* re-raised.
GetOrCreateMcpClientRaises(t, acq) ==
    /\ mtask[t].pc \in {"idle", "done"}
    /\ acq \in {"shutdown", "error"}
    /\ cache_lock_loop' = cur_loop
    /\ cache_lock_owner' = LockOwnerNow
    /\ cache_lock_waiters' = LockWaitersNow
    /\ mtask' = [mtask EXCEPT ![t] =
           IF acq = "shutdown"
           THEN ReturnedM(IdleM, None, NoTools, "shutdown")
           ELSE [IdleM EXCEPT !.pc = "done", !.out = "raised"]]
    /\ UNCHANGED <<client_loop, next_client>>
    /\ UnchangedMcpCache /\ UnchangedMcpEnv

\* multi_mcp_agent.py:195-197: `async with lock` of clear_mcp_cache raises;
\* the statement is in no try block, so the exception leaves the function.
ClearMcpCacheRaises(t, acq) ==
    /\ mtask[t].pc \in {"idle", "done"}
    /\ acq \in {"shutdown", "error"}
    /\ cache_lock_loop' = cur_loop
    /\ cache_lock_owner' = LockOwnerNow
    /\ cache_lock_waiters' = LockWaitersNow
    /\ mtask' = [mtask EXCEPT ![t] =
           [IdleM EXCEPT !.pc = "done",
                         !.out = IF acq = "shutdown" THEN "raised_shutdown"
                                 ELSE "raised"]]
    /\ UNCHANGED <<client_loop, next_client>>
    /\ UnchangedMcpCache /\ UnchangedMcpEnv

\* multi_mcp_agent.py:232-285: shutdown_mcp_client(), called while no
\* coroutine holds the lock.  Under the lock the client is closed (what its
\* close raises is logged) and the cache is reset; the shutdown RuntimeError
\* of `async with lock` is answered with the same reset; any other exception
\* is logged and the cache is left as it is.  The function returns in every
\* case.
ShutdownMcpClient(t, acq) ==
    /\ mtask[t].pc \in {"idle", "done"}
    /\ LockOwnerNow = 0 /\ LockWaitersNow = <<>>
    /\ cache_lock_loop' = cur_loop
    /\ cache_lock_owner' = 0
    /\ cache_lock_waiters' = <<>>
    /\ IF acq = "error" THEN UnchangedMcpCache ELSE McpCacheReset
    /\ mtask' = [mtask EXCEPT ![t] =
           [IdleM EXCEPT !.pc = "done", !.out = "shut_down"]]
    /\ UNCHANGED <<client_loop, next_client>>
    /\ UnchangedMcpEnv

\* seconds by which the clock moves between two steps of the tool-client cache
MTickStep == 60
MaxMTime == 60

\* Time passes while the coroutines of the tool-client cache are suspended.
MTick ==
    /\ now + MTickStep <= MaxMTime
    /\ now' = now + MTickStep
    /\ UNCHANGED <<cur_loop, fvars, mvars, wvars>>

\* -------------------------------------------------- middleware pipeline cache

\* get_middleware.py:32
CACHE_TTL_SECONDS == 300

\* An LLMMiddleware row; NoRow stands for a name that has no row.
NoRow == [llm_model |-> 0, config |-> 0, priority |-> 0,
          is_active |-> FALSE, is_critical |-> FALSE]

DefaultRow == [llm_model |-> 1, config |-> 1, priority |-> 1,
               is_active |-> TRUE, is_critical |-> FALSE]

\* get_middleware.py:25-30: the cache before the first build
NoHash == [set |-> FALSE, rows |-> <<>>]
\* A list object: its identity, the stages get_middleware appended to it
\* when it built it, and the stages it holds now.
EmptyList == [id |-> 0, stages |-> <<>>, built |-> <<>>]

\* A coroutine of get_middleware and its arguments; for a call made by an
\* agent, the agent and whether the message's thread has no checkpoint yet.
\* no list built for a model
NoEntry == [id |-> 0, hash |-> NoHash, at |-> None]

\* lists built in one behaviour: MaxBuilds, and one more for each further
\* model that has been served
BuildsAllowed ==
    MaxBuilds + Cardinality({m \in OwnerModels \ MwModels : keyed[m] # NoEntry})

IdleW == [pc |-> "idle", model |-> 0, force |-> FALSE, caller |-> NoName,
          fresh |-> FALSE]

\* The outcome of a call of get_middleware: what it found in the cache,
\* whether a critical stage failed to instantiate, and what it returned.
NoCall == [found |-> NoName, critfail |-> FALSE, ret |-> None, out |-> NoName]

\* get_middleware.py:264-282: the statistics of an empty cache
NoStats == [llm_model_id |-> None, middleware_count |-> 0, config_hash |-> NoHash,
            cached_at |-> None]

\* The synchronous caller of clear_middleware_cache, run by a worker thread:
\* which function it is, the counts of the sweep, how its call of
\* clear_middleware_cache ended and the statistics that returned, and how the
\* caller ended.
IdleJob == [pc |-> "idle", kind |-> NoName, processed |-> 0, deleted |-> 0,
            clear |-> NoName, stats |-> NoStats, out |-> NoName]

\* A coroutine of get_checkpointer or reset_checkpointer of checkpointer.py:
\* which of the two, the MemorySaver get_checkpointer yielded, the count
\* reset_checkpointer returned, and how the call has gone so far.
IdleC == [pc |-> "idle", op |-> NoName, got |-> None, count |-> None,
          out |-> NoName]

\* No call of clear_checkpointer_for_thread has been made since the last
\* write, tracking or sweep.
NoClears == [thread |-> NoName, rets |-> <<>>]

InitMwCache ==
    /\ mw_model = None
    /\ mw_middlewares = EmptyList
    /\ mw_timestamp = None
    /\ mw_hash = NoHash
    /\ keyed = [m \in OwnerModels |-> NoEntry]
    /\ wlock_owner = 0
    /\ wlock_waiters = <<>>
    /\ wlock_loop = None
    /\ edits = 0
    /\ next_build = 1
    /\ wtask = [t \in WTasks |-> IdleW]
    /\ wlast = NoCall
    /\ memory_saver = FALSE
    /\ storage = {}
    /\ checkpoint_timestamps = [k \in StorageKeys |-> None]
    /\ thread_clears = NoClears
    /\ saver_made = 0
    /\ saver_lock_loop = None
    /\ ctask = [t \in CTasks |-> IdleC]
    /\ job = IdleJob

\* One non-critical active stage is configured for the model.
InitMw ==
    /\ InitMwCache
    /\ db = [n \in StageNames |-> IF n = "A" THEN DefaultRow ELSE NoRow]

mwcache == <<mw_model, mw_middlewares, mw_timestamp, mw_hash, keyed>>

wlock == <<wlock_owner, wlock_waiters, wlock_loop>>

ckpts == <<memory_saver, storage, checkpoint_timestamps, thread_clears>>

\* get_middleware.py:147: order_by("priority", "middleware__name")
Before(a, b) ==
    \/ db[a].priority < db[b].priority
    \/ db[a].priority = db[b].priority /\ NameRank[a] < NameRank[b]

RowOf(n) == [name |-> n, config |-> db[n].config, priority |-> db[n].priority,
             is_active |-> db[n].is_active, is_critical |-> db[n].is_critical]

RECURSIVE SortRows(_)
SortRows(S) ==
    IF S = {} THEN <<>>
    ELSE LET first == CHOOSE n \in S : \A o \in S \ {n} : Before(n, o)
         IN <<RowOf(first)>> \o SortRows(S \ {first})

\* get_middleware.py:144-148: the active rows of the model, in order
QueryActive(m) ==
    SortRows({n \in StageNames : db[n].llm_model = m /\ db[n].is_active})

\* get_middleware.py:74-95: SHA-256 of the JSON list of the five fields of
\* each row, in query order; two lists have one hash only if they are equal.
ConfigHash(rows) ==
    [set |-> TRUE,
     rows |-> [i \in 1..Len(rows) |->
                  <<rows[i].name, rows[i].config, rows[i].priority,
                    rows[i].is_active, rows[i].is_critical>>]]

\* get_middleware.py:98-118
IsCacheValidNoHash(m, h) ==
    /\ mw_model = m
    /\ mw_timestamp # None
    /\ now - mw_timestamp < CACHE_TTL_SECONDS

IsCacheValid(m, h) ==
    /\ mw_model = m
    /\ mw_hash = h
    /\ mw_timestamp # None
    /\ now - mw_timestamp < CACHE_TTL_SECONDS

\* get_middleware.py:154 and 108-118, the test that fails first: what a call
\* finds in the cache.
CacheFound(force, m, h) ==
    IF force THEN "forced"
    ELSE IF mw_model # m THEN "other_model"
    ELSE IF mw_hash # h THEN "changed"
    ELSE IF mw_timestamp = None THEN "no_timestamp"
    ELSE IF now - mw_timestamp < CACHE_TTL_SECONDS THEN "valid"
    ELSE "expired"

\* get_middleware.py:191-192: a failed instantiation ends the build when the
\* row is critical.
StopsBuildNever(row, fail) == FALSE

StopsBuild(row, fail) == row.name \in fail /\ row.is_critical

\* The index of the row at which the loop of lines 163-192 raises, or 0.
FirstStop(rows, fail) ==
    LET S == {i \in 1..Len(rows) : StopsBuild(rows[i], fail)}
    IN IF S = {} THEN 0 ELSE CHOOSE i \in S : \A j \in S : i <= j

\* The rows the loop of lines 163-192 gets to.
Attempted(rows, fail) ==
    IF FirstStop(rows, fail) = 0 THEN 1..Len(rows)
    ELSE 1..FirstStop(rows, fail)

\* (a build that keeps the stage that failed)
InstancesNoSkip(rows, fail) == [i \in 1..Len(rows) |-> rows[i].name]

RECURSIVE Instances(_, _)
\* get_middleware.py:165-170: the instances appended, in order
Instances(rows, fail) ==
    IF rows = <<>> THEN <<>>
    ELSE (IF Head(rows).name \in fail THEN <<>> ELSE <<Head(rows).name>>)
         \o Instances(Tail(rows), fail)

\* asyncio.Lock.acquire() on the module's _cache_lock (get_middleware.py:31):
\* a free lock nobody waits for is taken at once; else the lock binds itself
\* to the running loop and the caller queues, unless the lock is bound to
\* another loop, in which case acquire() raises RuntimeError.
WLockFree == wlock_owner = 0 /\ wlock_waiters = <<>>

WLockBoundElsewhere(loop) == wlock_loop # None /\ wlock_loop # loop

WRelease == wlock_owner' = 0

\* get_middleware.py:121-142: the call takes _cache_lock, waits for it, or
\* fails to wait for it.
EnterGetMiddleware(t, call) ==
    LET tk == wtask[t] IN
    /\ tk.pc = "idle"
    /\ next_build <= BuildsAllowed
    /\ IF WLockFree
       THEN /\ wlock_owner' = t
            /\ wtask' = [wtask EXCEPT ![t] = [call EXCEPT !.pc = "w_query"]]
            /\ UNCHANGED <<wlock_waiters, wlock_loop, wlast>>
       ELSE IF WLockBoundElsewhere(cur_loop)
       THEN /\ wlast' = [NoCall EXCEPT !.out = "runtime_error"]
            /\ UNCHANGED <<wlock, wtask>>
       ELSE /\ wlock_loop' = cur_loop
            /\ wlock_waiters' = Append(wlock_waiters, t)
            /\ wtask' = [wtask EXCEPT ![t] = [call EXCEPT !.pc = "w_wait"]]
            /\ UNCHANGED <<wlock_owner, wlast>>
    /\ UNCHANGED <<mwcache, db, edits, next_build, ckpts, job>>
    /\ UNCHANGED <<now, cur_loop, fvars, mvars, svars>>

\* A direct call get_middleware(llm_model, force_refresh).
GetMiddlewareCall(t, m, force) ==
    EnterGetMiddleware(t, [IdleW EXCEPT !.model = m, !.force = force])

\* multi_mcp_agent.py:527-560: process_message looks the thread up with
\* checkpointer.aget and passes force_middleware_refresh = (state is None),
\* or False when the lookup raised, through build_agent (line 377) to
\* get_middleware.  deep_mcp_agent.py:149: build_deep_agent calls
\* get_middleware(llm_model) and never passes force_refresh.
ForceRefresh(caller, fresh, aget_raises) ==
    caller = "multi" /\ fresh /\ ~aget_raises

\* An agent builds its graph for a message: the call of get_middleware it
\* makes.  `fresh`: the thread of the message has no checkpoint yet.
BuildAgentCall(t, caller, m, fresh, aget_raises) ==
    /\ caller = "deep" => ~aget_raises
    /\ EnterGetMiddleware(t,
           [IdleW EXCEPT !.model = m, !.caller = caller, !.fresh = fresh,
                         !.force = ForceRefresh(caller, fresh, aget_raises)])

\* deep_mcp_agent.py:152-159: build_deep_agent appends a
\* ToolErrorHandlerMiddleware to the list get_middleware returned when that
\* list is empty; the list is the object the cache holds
\* (get_middleware.py:156 and 195-209 return it without copying).
ToolErrorHandler == "ToolErrorHandlerMiddleware"

AfterCaller(caller, stages) ==
    IF caller = "deep" /\ Len(stages) = 0 THEN <<ToolErrorHandler>> ELSE stages

\* get_middleware.py:142: the waiter at the head of the queue gets the lock.
MwLockAcquired(t) ==
    LET tk == wtask[t] IN
    /\ tk.pc = "w_wait"
    /\ wlock_owner = 0
    /\ wlock_waiters # <<>>
    /\ Head(wlock_waiters) = t
    /\ wlock_owner' = t
    /\ wlock_waiters' = Tail(wlock_waiters)
    /\ wtask' = [wtask EXCEPT ![t] = [tk EXCEPT !.pc = "w_query"]]
    /\ UNCHANGED <<wlock_loop, mwcache, db, edits, next_build, wlast, ckpts, job>>
    /\ UNCHANGED <<now, cur_loop, fvars, mvars, svars>>

\* get_middleware.py:143-209: the rows have been read; a valid cache is
\* returned, else the stages are instantiated in order (those of `fail` raise)
\* and the call raises at a critical failure or replaces the cache.  The
\* caller runs on without an await, so what build_deep_agent does to the
\* returned list (lines 152-159) is part of the step.
MwQueried(t, fail) ==
    LET tk == wtask[t]
        m == tk.model
        rows == QueryActive(m)
        h == ConfigHash(rows)
        stop == FirstStop(rows, fail)
        tried == Attempted(rows, fail)
        obs == [NoCall EXCEPT !.found = CacheFound(tk.force, m, h)]
        built == [obs EXCEPT
                    !.critfail = (\E i \in tried : rows[i].name \in fail
                                                   /\ rows[i].is_critical)]
    IN
    /\ tk.pc = "w_query"
    /\ fail \subseteq {rows[i].name : i \in 1..Len(rows)}
    /\ IF ~tk.force /\ IsCacheValid(m, h)
       THEN /\ fail = {}
            /\ wlast' = [obs EXCEPT !.ret = mw_middlewares.id, !.out = "cached"]
            /\ mw_middlewares' =
                   [mw_middlewares EXCEPT !.stages = AfterCaller(tk.caller, @)]
            /\ UNCHANGED <<mw_model, mw_timestamp, mw_hash, keyed, next_build>>
       ELSE IF stop # 0
       THEN /\ wlast' = [built EXCEPT !.out = "raised"]
            /\ UNCHANGED <<mwcache, next_build>>
       ELSE /\ next_build <= BuildsAllowed
            /\ mw_model' = m
            /\ mw_middlewares' =
                   [id |-> next_build,
                    stages |-> AfterCaller(tk.caller, Instances(rows, fail)),
                    built |-> Instances(rows, fail)]
            /\ mw_timestamp' = now
            /\ mw_hash' = h
            /\ keyed' = [keyed EXCEPT ![m] = [id |-> next_build, hash |-> h,
                                              at |-> now]]
            /\ next_build' = next_build + 1
            /\ wlast' = [built EXCEPT !.ret = next_build, !.out = "built"]
    /\ wtask' = [wtask EXCEPT ![t] = IdleW]
    /\ WRelease
    /\ UNCHANGED <<wlock_waiters, wlock_loop, db, edits, ckpts, job>>
    /\ UNCHANGED <<now, cur_loop, fvars, mvars, svars>>

\* The rows that differ from `row` in one field, the row deleted, or the row
\* added.
RowEdits(row) ==
    IF row = NoRow THEN {DefaultRow}
    ELSE {NoRow,
          [row EXCEPT !.config = 3 - row.config],
          [row EXCEPT !.priority = 3 - row.priority],
          [row EXCEPT !.is_active = ~row.is_active],
          [row EXCEPT !.is_critical = ~row.is_critical]}

\* An administrator creates, edits or deletes an LLMMiddleware row.
DbEdit(n, row) ==
    /\ edits < MaxEdits
    /\ row \in RowEdits(db[n])
    /\ db' = [db EXCEPT ![n] = row]
    /\ edits' = edits + 1
    /\ UNCHANGED <<mwcache, wlock, next_build, wtask, wlast, ckpts, job>>
    /\ UNCHANGED <<now, cur_loop, fvars, mvars, svars>>

\* get_middleware.py:264-270: what get_middleware_cache_stats reads
CacheStats ==
    [llm_model_id |-> mw_model, middleware_count |-> Len(mw_middlewares.stages),
     config_hash |-> mw_hash, cached_at |-> mw_timestamp]

\* get_middleware.py:220-227
CacheIsReset ==
    /\ mw_model = None
    /\ mw_middlewares = EmptyList
    /\ mw_timestamp = None
    /\ mw_hash = NoHash

\* The loop a synchronous caller makes for one coroutine (checkpointer.py:348,
\* asyncio.run at middleware_cache_jobs.py:46) and the task it runs there.
JobLoop == MaxLoops + 1
JobTask == NumWTasks + 1

\* asyncio.Lock.acquire() by a task of loop `running`, on a lock held by
\* `owner`, with `waiters` queued, bound to loop `bound`.
AcquireOutcome(owner, waiters, bound, running) ==
    IF owner = 0 /\ waiters = <<>> THEN "acquired"
    ELSE IF bound # None /\ bound # running THEN "raised"
    ELSE "waits"

\* get_middleware.py:212-229 and 258-282, run to its end in a loop of its own
\* while no coroutine holds _cache_lock: clear_middleware_cache takes the
\* lock and, holding it, awaits get_middleware_cache_stats, which takes the
\* same lock. `rec` is the caller's record when the call begins; the caller
\* ends with `ok` when the call returns and with `failed` when it raises.
ClearMiddlewareCache(rec, ok, failed) ==
    LET inner == AcquireOutcome(JobTask, <<>>, wlock_loop, JobLoop) IN
    /\ AcquireOutcome(wlock_owner, wlock_waiters, wlock_loop, JobLoop) = "acquired"
    /\ IF inner = "acquired"
       THEN /\ mw_model' = None
            /\ mw_middlewares' = EmptyList
            /\ mw_timestamp' = None
            /\ mw_hash' = NoHash
            /\ keyed' = [m \in OwnerModels |-> NoEntry]
            /\ job' = [rec EXCEPT !.pc = "done", !.clear = "returned",
                                  !.stats = CacheStats, !.out = ok]
            /\ UNCHANGED wlock
       ELSE IF inner = "raised"
       THEN /\ job' = [rec EXCEPT !.pc = "done", !.clear = "raised",
                                  !.out = failed]
            /\ UNCHANGED <<mwcache, wlock>>
       ELSE /\ wlock_owner' = JobTask
            /\ wlock_waiters' = <<JobTask>>
            /\ wlock_loop' = JobLoop
            /\ job' = [rec EXCEPT !.pc = "c_stats_wait", !.clear = "waits"]
            /\ UNCHANGED mwcache

\* middleware_cache_jobs.py:22-49: the job hook for a changed LLMMiddleware
\* row runs clear_middleware_cache and re-raises what it raises.
ReceiveJobHook ==
    /\ job.pc \in {"idle", "done"}
    /\ ClearMiddlewareCache([IdleJob EXCEPT !.kind = "hook"], "ok", "raised")
    /\ UNCHANGED <<db, edits, next_build, wtask, wlast, ckpts>>
    /\ UNCHANGED <<now, cur_loop, fvars, mvars, svars>>

\* multi_mcp_agent.py:511-518, checkpointer.py:114-117 and 266-275: a message
\* for a thread makes the MemorySaver if there is none and records the time.
TrackCheckpointCreation(k) ==
    /\ memory_saver \/ saver_made < MaxSavers
    /\ memory_saver' = TRUE
    /\ saver_made' = (IF memory_saver THEN saver_made ELSE saver_made + 1)
    /\ checkpoint_timestamps' = [checkpoint_timestamps EXCEPT ![k] = now]
    /\ thread_clears' = NoClears
    /\ UNCHANGED <<storage, mwcache, wlock, db, edits, next_build, wtask, wlast, job>>
    /\ UNCHANGED <<now, cur_loop, fvars, mvars, saver_lock_loop, ctask>>

\* The graph of a message in flight writes a checkpoint of its thread into
\* the MemorySaver's storage.
CheckpointWritten(k) ==
    /\ memory_saver
    /\ k \notin storage
    /\ storage' = storage \cup {k}
    /\ thread_clears' = NoClears
    /\ UNCHANGED <<memory_saver, checkpoint_timestamps, mwcache, wlock, db, edits,
                   next_build, wtask, wlast, job>>
    /\ UNCHANGED <<now, cur_loop, fvars, mvars, svars>>

\* How `async with lock` ends in an operation of checkpointer.py or
\* multi_mcp_agent.py: the lock is acquired, or the RuntimeError of an
\* interpreter that is shutting down, or another RuntimeError, is raised.
LockOutcomes == {"acquired", "shutdown", "error"}

\* How the block under `async with get_checkpointer() as checkpointer` ends:
\* it returns, or it raises the shutdown RuntimeError or something else.
BodyOutcomes == {"returns", "shutdown", "error"}

\* (a get_checkpointer that makes a MemorySaver for every caller)
NeedsSaverAlways == TRUE

\* checkpointer.py:114: `_memory_saver_instance is None`
NeedsSaver == ~memory_saver

\* checkpointer.py:78-130: get_checkpointer() is entered.  The lock is that of
\* the running loop; no coroutine holds it over an await, so it is free.
\* Under it the MemorySaver is made if there is none, and the instance is
\* yielded to the caller's block; when the shutdown RuntimeError is raised
\* instead, None is yielded; another RuntimeError is re-raised.
GetMemorySaverEnter(t, acq) ==
    LET call == [IdleC EXCEPT !.op = "get"] IN
    /\ ctask[t].pc \in {"idle", "done"}
    /\ saver_lock_loop' = cur_loop
    /\ IF acq = "acquired"
       THEN /\ NeedsSaver => saver_made < MaxSavers
            /\ memory_saver' = TRUE
            /\ saver_made' = (IF NeedsSaver THEN saver_made + 1 ELSE saver_made)
            /\ ctask' = [ctask EXCEPT ![t] =
                   [call EXCEPT !.pc = "body", !.got = saver_made',
                                !.out = "yielded"]]
       ELSE /\ ctask' = [ctask EXCEPT ![t] =
                   IF acq = "shutdown"
                   THEN [call EXCEPT !.pc = "body", !.out = "yielded_none"]
                   ELSE [call EXCEPT !.pc = "done", !.out = "raised"]]
            /\ UNCHANGED <<memory_saver, saver_made>>
    /\ UNCHANGED <<storage, checkpoint_timestamps, thread_clears, mwcache, wlock,
                   db, edits, next_build, wtask, wlast, job>>
    /\ UNCHANGED <<now, cur_loop, fvars, mvars>>

\* checkpointer.py:121-132 and contextlib's __aexit__: the caller's block
\* ends.  An exception of the block is thrown into the generator at its
\* yield.  At the yield of line 122 the shutdown RuntimeError reaches the
\* handler of line 126, which yields None: the generator has not stopped and
\* __aexit__ raises RuntimeError("generator didn't stop after athrow()").  At
\* the yield of line 130, and for every other exception, the exception
\* leaves the generator and the block.
GetMemorySaverExit(t, body) ==
    LET tk == ctask[t] IN
    /\ tk.pc = "body"
    /\ ctask' = [ctask EXCEPT ![t] =
           [tk EXCEPT !.pc = "done",
                      !.out = IF body = "returns" THEN "exited"
                              ELSE IF body = "error" THEN "raised"
                              ELSE IF tk.out = "yielded" THEN "didnt_stop"
                              ELSE "raised_shutdown"]]
    /\ UNCHANGED <<saver_made, saver_lock_loop, ckpts, mwcache, wlock, db, edits,
                   next_build, wtask, wlast, job>>
    /\ UNCHANGED <<now, cur_loop, fvars, mvars>>

\* checkpointer.py:254-257: thread_count = len(_memory_saver_instance.storage)
ResetCount == Cardinality(storage)

\* checkpointer.py:234-263: reset_checkpointer().  With no instance it
\* returns 0; else it counts the storage, installs a new MemorySaver, clears
\* the timestamps and returns the count.  `async with lock` is in no try
\* block: what it raises leaves the function.
ResetCheckpointer(t, acq) ==
    LET call == [IdleC EXCEPT !.op = "reset", !.pc = "done"] IN
    /\ ctask[t].pc \in {"idle", "done"}
    /\ saver_lock_loop' = cur_loop
    /\ IF acq # "acquired"
       THEN /\ ctask' = [ctask EXCEPT ![t] =
                   [call EXCEPT !.out = IF acq = "shutdown" THEN "raised_shutdown"
                                        ELSE "raised"]]
            /\ UNCHANGED <<saver_made, ckpts>>
       ELSE IF ~memory_saver
       THEN /\ ctask' = [ctask EXCEPT ![t] =
                   [call EXCEPT !.count = 0, !.out = "count"]]
            /\ UNCHANGED <<saver_made, ckpts>>
       ELSE /\ saver_made < MaxSavers
            /\ saver_made' = saver_made + 1
            /\ storage' = {}
            /\ checkpoint_timestamps' = [k \in StorageKeys |-> None]
            /\ thread_clears' = NoClears
            /\ ctask' = [ctask EXCEPT ![t] =
                   [call EXCEPT !.count = ResetCount, !.out = "count"]]
            /\ UNCHANGED memory_saver
    /\ UNCHANGED <<mwcache, wlock, db, edits, next_build, wtask, wlast, job>>
    /\ UNCHANGED <<now, cur_loop, fvars, mvars>>

\* (a clear that removes the bare key only)
KeysOfBare(t) == {k \in storage : k = BareKey(t)}

\* checkpointer.py:175-178: the storage keys whose first element is the thread
KeysOf(t) == {k \in storage : k[1] = t}

\* (a clear that reports success whatever it deleted)
ClearedAlways(gone) == TRUE

\* checkpointer.py:180-184: `cleared` is set when a key is deleted
Cleared(gone) == gone # {}

\* How the `await _memory_saver_instance.aget(config)` of line 157 ends: it
\* returns, it raises the RuntimeError of an interpreter that is shutting
\* down, or it raises something else.
AgetOutcomes == {"returns", "shutdown", "error"}

\* checkpointer.py:135-231: clear_checkpointer_for_thread(thread_id).  With a
\* saver and a state for the thread (lines 157-198), and after the shutdown
\* RuntimeError (lines 203-225), the keys of the thread and the timestamp of
\* its bare key are deleted and the call returns whether a key was deleted;
\* with no saver, no state or another exception it returns False.
ClearCheckpointerForThread(t, aget) ==
    LET gone == KeysOf(t)
        state == \E k \in storage : k[1] = t
        deletes == /\ memory_saver
                   /\ \/ aget = "returns" /\ state
                      \/ aget = "shutdown"
        ret == deletes /\ Cleared(gone)
        before == IF thread_clears.thread = t THEN thread_clears.rets ELSE <<>>
    IN
    /\ Len(before) < MaxClearsInRow
    /\ IF deletes
       THEN /\ storage' = storage \ gone
            /\ checkpoint_timestamps' =
                   [k \in StorageKeys |->
                       IF k \in gone \/ k = BareKey(t) THEN None
                       ELSE checkpoint_timestamps[k]]
       ELSE UNCHANGED <<storage, checkpoint_timestamps>>
    /\ thread_clears' = [thread |-> t, rets |-> Append(before, ret)]
    /\ UNCHANGED <<memory_saver, mwcache, wlock, db, edits, next_build, wtask,
                   wlast, job>>
    /\ UNCHANGED <<now, cur_loop, fvars, mvars, svars>>

\* checkpointer.py:306-307 and 331
SweepThreshold(ttl_minutes) == ttl_minutes * 60 + 30

\* (a sweep that also deletes the keys it has no timestamp for)
ExpiredOrUntracked(ttl_minutes) ==
    {k \in storage : \/ checkpoint_timestamps[k] = None
                     \/ now - checkpoint_timestamps[k] > SweepThreshold(ttl_minutes)}

Expired(ttl_minutes) ==
    {k \in storage : /\ checkpoint_timestamps[k] # None
                     /\ now - checkpoint_timestamps[k] > SweepThreshold(ttl_minutes)}

\* checkpointer.py:278-379: the sweep, called by a worker thread while no
\* coroutine holds _cache_lock; what clear_middleware_cache raises is logged
\* and the sweep returns its counts.
CleanupExpiredCheckpoints(ttl_minutes) ==
    LET gone == Expired(ttl_minutes)
        rec == [IdleJob EXCEPT !.kind = "sweep", !.processed = Cardinality(storage),
                               !.deleted = Cardinality(gone)]
    IN
    /\ job.pc \in {"idle", "done"}
    /\ IF ~memory_saver
       THEN /\ job' = [IdleJob EXCEPT !.pc = "done", !.kind = "sweep",
                                      !.out = "no_memory_saver"]
            /\ UNCHANGED <<ckpts, mwcache, wlock>>
       ELSE /\ storage' = storage \ gone
            /\ checkpoint_timestamps' =
                  [k \in StorageKeys |->
                      IF k \in gone THEN None
                      ELSE IF k \in storage /\ checkpoint_timestamps[k] = None THEN now
                      ELSE checkpoint_timestamps[k]]
            /\ UNCHANGED memory_saver
            /\ thread_clears' = NoClears
            /\ IF gone # {}
               THEN ClearMiddlewareCache(rec, "success", "success")
               ELSE /\ job' = [rec EXCEPT !.pc = "done", !.out = "success"]
                    /\ UNCHANGED <<mwcache, wlock>>
    /\ UNCHANGED <<db, edits, next_build, wtask, wlast>>
    /\ UNCHANGED <<now, cur_loop, fvars, mvars, svars>>

\* seconds by which the clock moves between two steps of the middleware cache
WTickStep == 300
MaxWTime == 300

\* Time passes.
WTick ==
    /\ now + WTickStep <= MaxWTime
    /\ now' = now + WTickStep
    /\ UNCHANGED <<cur_loop, fvars, mvars, wvars>>

\* ------------------------------------------------------------- the process

\* The framework ends the running event loop and starts another one; the
\* coroutines of the old loop are gone.
LoopSwitch ==
    /\ \A t \in FTasks : ftask[t].pc \in {"idle", "done"}
    /\ \A t \in MTasks : mtask[t].pc \in {"idle", "done"}
    /\ cur_loop < MaxLoops
    /\ cur_loop' = cur_loop + 1
    /\ ftask' = [t \in FTasks |-> IdleF]
    /\ mtask' = [t \in MTasks |-> IdleM]
    /\ UNCHANGED <<now, redis_url, auth_method, fmode, ptask, avars, res_kind,
                   res_loop, closes,
                   next_res>>
    /\ UnchangedCkptMaps /\ UnchangedStoreMaps
    /\ UNCHANGED <<mcp_client, mcp_tools, mcp_timestamp, mcp_server_count,
                   cache_lock_loop, cache_lock_owner, cache_lock_waiters,
                   client_loop, next_client, wvars>>

\* seconds by which the clock moves between two steps of the factories
FTickStep == 1800
MaxFTime == 3600

\* Time passes. The factories read the clock only for the age of a
\* service-principal pool (checkpoint_factory.py:223-226).
FTick ==
    /\ auth_method = "service_principal"
    /\ now + FTickStep <= MaxFTime
    /\ now' = now + FTickStep
    /\ UNCHANGED <<cur_loop, fvars, mvars, wvars>>

InitCommon ==
    /\ now = 0
    /\ cur_loop = 1

\* The factories serving requests; the tool-client cache is not used.
\* The middleware cache and the checkpoint store before their first use.
MwAtRest == InitMw /\ db["B"] = NoRow

Init == InitCommon /\ InitFactory /\ InitMcp /\ MwAtRest

NextFactory ==
    \/ \E t \in FTasks, a \in Agents : GetCheckpointerCall(t, a)
    \/ \E t \in FTasks : RedisSetupDone(t)
    \/ \E t \in FTasks : RedisCloseOldDone(t)
    \/ \E t \in FTasks : RedisResetupDone(t)
    \/ \E t \in FTasks : PoolCloseOldDone(t)
    \/ \E t \in FTasks : PoolCloseAzureDone(t)
    \/ \E t \in FTasks : PoolOpenDone(t)
    \/ \E t \in FTasks : PoolSetupDone(t)
    \/ \E t \in FTasks, a \in Agents : GetStoreCall(t, a)
    \/ \E t \in FTasks : StoreSetupDone(t)
    \/ \E t \in FTasks : StoreCloseOldDone(t)
    \/ \E t \in FTasks : StoreResetupDone(t)
    \/ LoopSwitch
    \/ FTick

SpecFactory == Init /\ [][NextFactory]_vars

\* get_middleware called for a model whose LLMMiddleware rows, and those of
\* another model, are in any configuration; the rows do not change.
ConfiguredRows ==
    {r \in [llm_model : {1, 2}, config : {1}, priority : {1, 2},
            is_active : BOOLEAN, is_critical : BOOLEAN] :
        r.llm_model = 2 => r.priority = 1 /\ r.is_active /\ ~r.is_critical}

\* One caller at a time builds the pipeline.
BuildTasks == {1}

InitBuild ==
    /\ InitCommon /\ InitMcp /\ InitFactory /\ ~redis_url /\ fmode = "get_store"
    /\ InitMwCache
    /\ db \in [StageNames -> ConfiguredRows]

NextBuild ==
    \/ \E t \in BuildTasks, m \in MwModels, force \in BOOLEAN :
           GetMiddlewareCall(t, m, force)
    \/ \E t \in BuildTasks, fail \in SUBSET StageNames : MwQueried(t, fail)

SpecBuild == InitBuild /\ [][NextBuild]_vars

\* The two agents build their graphs for messages, get_middleware is called
\* directly and the cache-invalidation hook runs; the model has one
\* configured stage or none.
InitAgents ==
    /\ InitCommon /\ InitMcp /\ InitFactory /\ ~redis_url /\ fmode = "get_store"
    /\ InitMwCache
    /\ db \in [StageNames -> {DefaultRow, NoRow}]
    /\ db["B"] = NoRow /\ db["C"] = NoRow

NextAgents ==
    \/ \E t \in WTasks, caller \in Callers, m \in MwModels :
           \E fresh \in BOOLEAN, aget_raises \in BOOLEAN :
               BuildAgentCall(t, caller, m, fresh, aget_raises)
    \/ \E t \in WTasks, m \in MwModels, force \in BOOLEAN :
           GetMiddlewareCall(t, m, force)
    \/ \E t \in WTasks : MwLockAcquired(t)
    \/ \E t \in WTasks, fail \in SUBSET StageNames : MwQueried(t, fail)
    \/ ReceiveJobHook
    \/ WTick

SpecAgents == InitAgents /\ [][NextAgents]_vars

\* The factories serving requests until the process shuts the deep agent
\* down.
NextShutdown ==
    \/ NextFactory
    \/ \E fail \in SUBSET Closable : ShutdownDeepAgent(fail)

SpecShutdown == Init /\ [][NextShutdown]_vars

\* The tool-client cache serving requests under one event loop; the factories
\* are not used.
FactoryAtRest == InitFactory /\ ~redis_url /\ fmode = "get_store"

InitMcpSpec == InitCommon /\ InitMcp /\ FactoryAtRest /\ MwAtRest

NextMcp ==
    \/ \E t \in MTasks, force \in BOOLEAN : GetOrCreateMcpClientCall(t, force)
    \/ \E t \in MTasks : McpLockAcquired(t)
    \/ \E t \in MTasks, ttl \in CacheTtls \cup {FallbackTtl} : McpTtlRead(t, ttl)
    \/ \E t \in MTasks : McpQueryRaised(t)
    \/ \E t \in MTasks, n \in ServerCounts : McpServersQueried(t, n)
    \/ \E t \in MTasks : McpToolsDone(t)
    \/ MTick

SpecMcp == InitMcpSpec /\ [][NextMcp]_vars

\* The tool-client cache serving requests while the framework goes from one
\* event loop to the next.
NextMcpLoops ==
    \/ \E t \in MTasks, force \in BOOLEAN : GetOrCreateMcpClientCall(t, force)
    \/ \E t \in MTasks : McpLockAcquired(t)
    \/ \E t \in MTasks, ttl \in CacheTtls \cup {FallbackTtl} : McpTtlRead(t, ttl)
    \/ \E t \in MTasks : McpQueryRaised(t)
    \/ \E t \in MTasks, n \in ServerCounts : McpServersQueried(t, n)
    \/ \E t \in MTasks : McpToolsDone(t)
    \/ MTick
    \/ LoopSwitch

SpecMcpLoops == InitMcpSpec /\ [][NextMcpLoops]_vars

\* get_middleware serving requests while the rows are edited.
InitMwSpec == InitCommon /\ InitMw /\ FactoryAtRest /\ InitMcp

NextMw ==
    \/ \E t \in WTasks, m \in MwModels, force \in BOOLEAN : GetMiddlewareCall(t, m, force)
    \/ \E t \in WTasks : MwLockAcquired(t)
    \/ \E t \in WTasks, fail \in SUBSET StageNames : MwQueried(t, fail)
    \/ \E n \in EditNames : \E row \in RowEdits(db[n]) : DbEdit(n, row)
    \/ WTick

SpecMw == InitMwSpec /\ [][NextMw]_vars

\* get_middleware serving requests while messages write checkpoints and a
\* worker thread runs the sweep and the cache-invalidation hook.
NextSweep ==
    \/ \E t \in WTasks, m \in MwModels, force \in BOOLEAN : GetMiddlewareCall(t, m, force)
    \/ \E t \in WTasks : MwLockAcquired(t)
    \/ \E t \in WTasks, fail \in SUBSET StageNames : MwQueried(t, fail)
    \/ \E k \in ThreadKeys : TrackCheckpointCreation(k)
    \/ \E k \in ThreadKeys : CheckpointWritten(k)
    \/ \E ttl_minutes \in SweepTtls : CleanupExpiredCheckpoints(ttl_minutes)
    \/ ReceiveJobHook
    \/ WTick

SpecSweep == InitMwSpec /\ [][NextSweep]_vars

\* Messages write checkpoints of two threads, threads are cleared and the
\* sweep runs; get_middleware is not called.
NextCkpt ==
    \/ \E t \in Threads : TrackCheckpointCreation(BareKey(t))
    \/ \E k \in StorageKeys : CheckpointWritten(k)
    \/ \E t \in Threads, aget \in AgetOutcomes : ClearCheckpointerForThread(t, aget)
    \/ \E ttl_minutes \in SweepTtls : CleanupExpiredCheckpoints(ttl_minutes)
    \/ WTick

SpecCkpt == InitMwSpec /\ [][NextCkpt]_vars

\* ------------------------------------------------------------------ claims

LoopBound == {"redis_saver", "pool", "redis_store"}

FDone(t) == ftask[t].pc = "done"

FOk(t) == FDone(t) /\ ftask[t].out = "ok"

\* The loop-id map that goes with the resources of a kind.
LoopMapOf(kind) ==
    IF kind = "redis_saver" THEN checkpointer_event_loops
    ELSE IF kind = "pool" THEN pool_event_loops
    ELSE store_event_loops

\* C1: single flight in the checkpoint and store factories: at no time are two
\* coroutines constructing the same backend for one agent, and all calls that
\* found no cached entry are answered with the same instance.
C1_SingleFlightFactories ==
    /\ \A t1, t2 \in FTasks :
          (t1 # t2 /\ ftask[t1].agent = ftask[t2].agent) =>
              /\ ~(ftask[t1].pc = "r_setup" /\ ftask[t2].pc = "r_setup")
              /\ ~(ftask[t1].pc = "p_open" /\ ftask[t2].pc = "p_open")
              /\ ~(ftask[t1].pc = "s_setup" /\ ftask[t2].pc = "s_setup")
    /\ \A t1, t2 \in FTasks :
          (/\ FOk(t1) /\ FOk(t2)
           /\ ftask[t1].cold /\ ftask[t2].cold
           /\ ftask[t1].agent = ftask[t2].agent
           /\ res_kind[ftask[t1].ret] = res_kind[ftask[t2].ret])
          => ftask[t1].ret = ftask[t2].ret

\* C7 as stated: every call that finds a cached Redis checkpointer, pool or
\* Redis store recorded under another loop returns a new resource of that kind
\* built under the running loop, and the loop map records the running loop.
C7_RebuildAlwaysRecorded ==
    \A t \in FTasks :
        (FDone(t) /\ ftask[t].mism # NoName) =>
            /\ ftask[t].out = "ok"
            /\ res_kind[ftask[t].ret] = ftask[t].mism
            /\ res_loop[ftask[t].ret] = cur_loop
            /\ LoopMapOf(ftask[t].mism)[ftask[t].agent] = cur_loop

\* C7 amended: a call never returns a Redis checkpointer, pool or Redis store
\* built under a loop other than the running one, whatever its age, and the
\* loop id recorded for a cached resource is the id of the loop it was built
\* under.
C7_LoopAffinity ==
    /\ \A t \in FTasks :
          (FOk(t) /\ res_kind[ftask[t].ret] \in LoopBound) =>
              res_loop[ftask[t].ret] = cur_loop
    /\ \A a \in Agents :
          /\ redis_checkpointers[a] # None =>
                checkpointer_event_loops[a] = res_loop[redis_checkpointers[a]]
          /\ connection_pools[a] # None =>
                pool_event_loops[a] = res_loop[connection_pools[a]]
          /\ redis_stores[a] # None =>
                store_event_loops[a] = res_loop[redis_stores[a]]

\* A call under the second loop found the first loop's resource, closed it and
\* returned its replacement.
C7_Witness ==
    \E t \in FTasks, r \in Res :
        /\ FOk(t) /\ ftask[t].mism # NoName
        /\ res_kind[ftask[t].ret] = ftask[t].mism
        /\ res_loop[ftask[t].ret] = cur_loop
        /\ res_kind[r] = ftask[t].mism
        /\ res_loop[r] # cur_loop
        /\ closes[r] >= 1

MDone(t) == mtask[t].pc = "done"

\* The call has made its validity check (multi_mcp_agent.py:77).
MChecked(t) == mtask[t].pc \in {"m_query", "m_tools", "done"}

\* The calls made on the empty cache without force_refresh.
ColdCalls == {t \in MTasks : mtask[t].pc # "idle" /\ mtask[t].cold /\ ~mtask[t].force}

\* No call other than those of ColdCalls has been made under this loop.
OnlyColdCalls == \A t \in MTasks : mtask[t].pc = "idle" \/ t \in ColdCalls

\* The servers were queried and the client constructed once, and the calls
\* that have returned hold one client and one tool list.
BuiltOnce ==
    /\ Cardinality({t \in ColdCalls : mtask[t].q = 1}) <= 1
    /\ Cardinality({t \in ColdCalls : mtask[t].c = 1}) <= 1
    /\ \A t1, t2 \in ColdCalls :
          (MDone(t1) /\ MDone(t2)) =>
              /\ mtask[t1].ret = mtask[t2].ret
              /\ mtask[t1].tools = mtask[t2].tools

C5_NegativeResultCached ==
    \A t \in MTasks :
        (/\ MChecked(t) /\ ~mtask[t].force
         /\ mtask[t].seen = None /\ mtask[t].young)
        => /\ mtask[t].q = 0
           /\ MDone(t) => (mtask[t].out = "cached" /\ mtask[t].ret = None
                           /\ mtask[t].tools = NoTools)

\* The call of t has found a cached client, without force_refresh.
FoundClient(t) == ~mtask[t].force /\ mcp_client # None

C6_CheckStep(t) ==
    (/\ mtask[t].pc = "m_ttl" /\ mtask'[t].pc # "m_ttl"
     /\ FoundClient(t))
    => IF mtask'[t].young
       THEN /\ MDone(t)'
            /\ mtask'[t].ret = mcp_client /\ mtask'[t].tools = mcp_tools
            /\ UNCHANGED <<mcp_client, mcp_tools, mcp_timestamp,
                           mcp_server_count, next_client>>
       ELSE mtask'[t].pc = "m_query"

\* The call of t, having found a client of age TTL or more, returns.
ExpiredReturns(t) ==
    /\ mtask[t].pc \in {"m_query", "m_tools"} /\ MDone(t)'
    /\ ~mtask[t].force /\ mtask[t].seen # None /\ ~mtask[t].young

\* C6 as stated: a cached client is returned unchanged while its age is
\* below the TTL read by the call, and the first call that finds it of age
\* TTL or more queries the servers, constructs a new client and renews the
\* timestamp.
C6_TtlExpiryRebuilds ==
    [][\A t \in MTasks :
           /\ C6_CheckStep(t)
           /\ ExpiredReturns(t) =>
                 /\ mtask'[t].q = 1 /\ mtask'[t].c = 1
                 /\ mtask'[t].ret # None /\ mtask'[t].ret # mtask[t].seen
                 /\ mcp_client' = mtask'[t].ret
                 /\ mcp_timestamp' = mtask[t].now]_vars

\* C6 amended: a cached client is returned unchanged while its age is below
\* the TTL read by the call; the first call that finds it of age TTL or more
\* queries the servers again and renews the timestamp, and caches and returns
\* a newly constructed client when a server is healthy and tool discovery
\* succeeds, else caches and returns (None, []).
C6_TtlExpiry ==
    [][\A t \in MTasks :
           /\ C6_CheckStep(t)
           /\ ExpiredReturns(t) =>
                 /\ mtask'[t].q = 1
                 /\ mcp_timestamp' = mtask[t].now
                 /\ mcp_timestamp' > mcp_timestamp
                 /\ mcp_client' = mtask'[t].ret
                 /\ mcp_tools' = mtask'[t].tools
                 /\ IF mtask'[t].out = "built"
                    THEN /\ mtask'[t].c = 1
                         /\ mtask'[t].ret = mtask[t].new
                         /\ mtask'[t].ret # mtask[t].seen
                         /\ mtask'[t].tools = mtask'[t].ret
                    ELSE /\ mtask'[t].ret = None
                         /\ mtask'[t].tools = NoTools]_vars

\* A call found the cached client expired and returned the client it built in
\* its place, after another call had been served that client from the cache.
C6_Witness ==
    \E t1, t2 \in MTasks :
        /\ MDone(t1) /\ mtask[t1].out = "built" /\ ~mtask[t1].force
        /\ mtask[t1].seen # None /\ ~mtask[t1].young
        /\ MDone(t2) /\ mtask[t2].out = "cached" /\ mtask[t2].ret = mtask[t1].seen

\* C8: a call never returns a client constructed under a loop other than the
\* running one.
C8_ClientLoopAffinity ==
    \A t \in MTasks :
        (MDone(t) /\ mtask[t].ret # None) => client_loop[mtask[t].ret] = cur_loop

\* A step in which coroutine t of get_middleware, holding the lock with its
\* rows read, runs to its return or raise.
WReturns(t) == wtask[t].pc = "w_query" /\ wtask'[t].pc = "idle"

\* The hash of the active rows of the model coroutine t was called with.
HashNow(t) == ConfigHash(QueryActive(wtask[t].model))

\* The cached entry is younger than the TTL.
CacheYoung == mw_timestamp # None /\ now - mw_timestamp < CACHE_TTL_SECONDS

\* A call without force_refresh for the cached model finds the rows changed
\* since the cached build, the entry younger than the TTL.
SeesChange(t) ==
    /\ WReturns(t)
    /\ ~wtask[t].force
    /\ mw_model = wtask[t].model
    /\ mw_hash # HashNow(t)
    /\ CacheYoung

\* A call without force_refresh for the cached model finds the rows as they
\* were at the cached build, the entry younger than the TTL.
SeesNoChange(t) ==
    /\ WReturns(t)
    /\ ~wtask[t].force
    /\ mw_model = wtask[t].model
    /\ mw_hash = HashNow(t)
    /\ CacheYoung

\* The call built a new list and stored it with the hash of the rows it read.
Rebuilt(t) ==
    /\ wlast'.out = "built"
    /\ mw_middlewares'.id # mw_middlewares.id
    /\ wlast'.ret = mw_middlewares'.id
    /\ mw_hash' = HashNow(t)
    /\ mw_model' = wtask[t].model

\* The call returned the cached list and built nothing.
ServedFromCache ==
    /\ wlast'.out = "cached"
    /\ wlast'.ret = mw_middlewares.id
    /\ UNCHANGED <<mwcache, next_build>>

\* C9 as stated: a call that finds the active rows of the cached model changed
\* rebuilds the stages and stores the new hash although the entry is younger
\* than the TTL; a call that finds them unchanged, for the same model and
\* within the TTL, returns the cached list and builds nothing.
C9_FingerprintInvalidation ==
    [][\A t \in WTasks :
          /\ SeesChange(t) => Rebuilt(t)
          /\ SeesNoChange(t) => ServedFromCache]_vars

\* C9, amended: a call that finds the active rows of the cached model changed
\* rebuilds the stages and stores the new hash although the entry is younger
\* than the TTL, unless a critical stage fails to instantiate, in which case
\* it raises and the cache keeps the old entry and hash; a call that finds
\* the rows unchanged, for the same model and within the TTL, returns the
\* cached list and builds nothing.
C9_FingerprintInvalidationUnlessCritical ==
    [][\A t \in WTasks :
          /\ SeesChange(t) =>
                \/ Rebuilt(t)
                \/ wlast'.critfail /\ wlast'.out = "raised" /\ UNCHANGED mwcache
          /\ SeesNoChange(t) => ServedFromCache]_vars

\* A call without force_refresh found the hash changed, at a time when no
\* entry can be as old as the TTL, and rebuilt.
C9_Witness ==
    /\ wlast.found = "changed"
    /\ wlast.out = "built"
    /\ now < CACHE_TTL_SECONDS
    /\ mw_hash # NoHash

\* C10: when a critical stage fails to instantiate during a build, the call
\* raises, returns no list and leaves the cache (model id, stage list,
\* timestamp, hash) as it was.
C10_CriticalFailureRaises ==
    [][\A t \in WTasks :
          (WReturns(t) /\ wlast'.critfail) =>
              /\ wlast'.out = "raised"
              /\ wlast'.ret = None
              /\ UNCHANGED mwcache]_vars

\* A call raised at a critical stage while the cache held an earlier build.
C10_Witness ==
    /\ wlast.out = "raised"
    /\ wlast.critfail
    /\ mw_timestamp # None
    /\ mw_middlewares.stages # <<>>

\* A step in which clear_middleware_cache is called, by the job hook or by a
\* sweep that deleted a checkpoint.
ClearCalled ==
    \/ ReceiveJobHook
    \/ \E ttl_minutes \in SweepTtls :
          CleanupExpiredCheckpoints(ttl_minutes) /\ job'.clear # NoName

\* C3: clear_middleware_cache, called while no task holds the lock, returns
\* the statistics of the cache as it was, leaves the cache reset and the lock
\* released, and never waits for a lock its own task holds.
C3_ClearTerminates ==
    [][ClearCalled =>
          /\ job'.pc = "done"
          /\ job'.clear = "returned"
          /\ job'.stats = CacheStats
          /\ CacheIsReset'
          /\ wlock_owner' = 0
          /\ ~(wlock_owner' = JobTask /\ job'.clear = "waits")]_vars

\* C4: a sweep that deletes a checkpoint returns with the middleware cache
\* empty; a sweep that deletes nothing leaves the cache as it was.
C4_SweepClearsCache ==
    [][\A ttl_minutes \in SweepTtls :
          (CleanupExpiredCheckpoints(ttl_minutes) /\ memory_saver) =>
              IF job'.deleted > 0
              THEN job'.pc = "done" /\ CacheIsReset'
              ELSE UNCHANGED mwcache]_vars

\* ------------------------------------------------ hard failure of a factory

\* The call of task t ends by raising at this step, and no other call has
\* been made under the running loop.
RaisesAlone(t) ==
    /\ ftask[t].op = "get_checkpointer"
    /\ ftask[t].pc \notin {"idle", "done"}
    /\ ftask'[t].pc = "done"
    /\ ftask'[t].out = "raised"
    /\ \A u \in FTasks \ {t} : ftask[u].pc = "idle"

\* C20: a get_checkpointer(agent) call that ends by raising leaves no entry
\* for the agent in _redis_checkpointers, _connection_pools,
\* _pool_creation_times or the loop-id maps that was not there when the call
\* began.
C20_NoEntryOnHardFailure ==
    [][\A t \in FTasks :
          RaisesAlone(t) => CkptEntries(ftask[t].agent)' \subseteq ftask[t].pre]_vars

\* ----------------------------------------------------------------- shutdown

\* The resources held in the factory caches.
CachedResources ==
    {r \in Res : \E a \in Agents :
        r \in {redis_checkpointers[a], connection_pools[a], redis_stores[a]}}

\* No factory cache and no metadata map holds an entry.
FactoryCachesEmpty ==
    \A a \in Agents :
        /\ redis_checkpointers[a] = None /\ checkpointer_event_loops[a] = None
        /\ connection_pools[a] = None /\ pool_creation_times[a] = None
        /\ pool_event_loops[a] = None
        /\ redis_stores[a] = None /\ store_event_loops[a] = None
        /\ memory_stores[a] = None

\* C19: when shutdown_deep_agent() returns, close has been invoked once on
\* every cached Redis checkpointer, pool and Redis store and every factory
\* cache and metadata map is empty, whether or not a close raised.
C19_ShutdownReleasesAll ==
    [][(\E fail \in SUBSET Closable : ShutdownDeepAgent(fail)) =>
          /\ FactoryCachesEmpty'
          /\ \A r \in CachedResources :
                 closes[r] < MaxCloses => closes'[r] = closes[r] + 1]_vars

\* ----------------------------------------------------- building the pipeline

\* The names of the active rows of model m.
ActiveNames(m) == {n \in StageNames : db[n].llm_model = m /\ db[n].is_active}

\* A sequence of stage names without repetition, in the order of the query:
\* priority ascending, then name ascending.
InQueryOrder(seq) ==
    \A i, j \in 1..Len(seq) :
        i < j => /\ seq[i] \in StageNames /\ seq[j] \in StageNames
                 /\ Before(seq[i], seq[j])

\* C11: when stages that are not critical fail to instantiate during a build,
\* the call returns and caches a list holding the instances of exactly the
\* other active specs of the model, in their query order.
C11_NonCriticalFailureSkipped ==
    [][\A t \in WTasks, fail \in SUBSET StageNames :
          (/\ MwQueried(t, fail)
           /\ fail # {}
           /\ \A n \in fail : ~db[n].is_critical)
          => /\ wlast'.out = "built"
             /\ wlast'.ret = mw_middlewares'.id
             /\ mw_middlewares'.id # mw_middlewares.id
             /\ mw_middlewares'.stages = mw_middlewares'.built
             /\ {mw_middlewares'.built[i] : i \in 1..Len(mw_middlewares'.built)}
                    = ActiveNames(wtask[t].model) \ fail
             /\ Len(mw_middlewares'.built)
                    = Cardinality(ActiveNames(wtask[t].model) \ fail)
             /\ InQueryOrder(mw_middlewares'.built)]_vars

\* Three active specs, the second failed: stages 1 and 3 were returned.
C11_Witness ==
    /\ Len(QueryActive(1)) = 3
    /\ wlast.out = "built"
    /\ wlast.ret = mw_middlewares.id
    /\ mw_middlewares.stages = <<QueryActive(1)[1].name, QueryActive(1)[3].name>>

\* ----------------------------------------------------- the cached stage list

\* C18: the stage list held in the middleware cache holds exactly the stages
\* get_middleware put into it when it built it; no caller has added to it or
\* removed from it.
C18_CacheListUntouched == mw_middlewares.stages = mw_middlewares.built

\* The call of task t returns at this step.
MwReturns(t) ==
    /\ wtask[t].pc = "w_query"
    /\ wtask'[t].pc = "idle"
    /\ wlast'.out \in {"cached", "built"}

\* C12: the sequence get_middleware returns holds instances of active specs
\* of the model only, one each, ordered by priority and then by stage name; a
\* build returns one for every active spec that instantiated.
C12_DeterministicOrder ==
    [][\A t \in WTasks :
          MwReturns(t) =>
             LET ret == IF wlast'.out = "cached" THEN mw_middlewares.stages
                        ELSE mw_middlewares'.built
             IN /\ \A i \in 1..Len(ret) : ret[i] \in ActiveNames(wtask[t].model)
                /\ InQueryOrder(ret)
                /\ \A fail \in SUBSET StageNames :
                       MwQueried(t, fail) /\ wlast'.out = "built" =>
                          {ret[i] : i \in 1..Len(ret)}
                              = ActiveNames(wtask[t].model) \ fail]_vars

\* C17: a call made by an agent for a message whose thread has no checkpoint
\* yet does not return the cached stage list.
C17_FreshStagesForNewThread ==
    [][\A t \in WTasks :
          (/\ wtask[t].pc = "w_query"
           /\ wtask'[t].pc = "idle"
           /\ wtask[t].caller \in Callers
           /\ wtask[t].fresh)
          => wlast'.out # "cached"]_vars

\* ------------------------------------------------------- clearing a thread

\* Thread t has a stored checkpoint.
HasCheckpoint(t) == \E k \in storage : k[1] = t

\* What the call of clear_checkpointer_for_thread made at this step returned.
ClearRet == thread_clears'.rets[Len(thread_clears'.rets)]

\* Two calls for one thread in a row that began with True ended with False.
TrueThenFalse ==
    Len(thread_clears'.rets) = 2 /\ thread_clears'.rets[1] => ~thread_clears'.rets[2]

\* C13 as stated: a call for a thread with no stored checkpoint, or with no
\* checkpointer instance, returns False; a call for a thread that has one
\* returns True, and the call that follows it returns False.
C13_ClearIdempotent ==
    [][\A t \in Threads, aget \in AgetOutcomes :
          ClearCheckpointerForThread(t, aget) =>
             /\ ~memory_saver \/ ~HasCheckpoint(t) => ~ClearRet
             /\ memory_saver /\ HasCheckpoint(t) => ClearRet
             /\ TrueThenFalse]_vars

\* C13, amended: as above, but a call whose lookup of the thread's state
\* fails with an error other than the shutdown RuntimeError returns False
\* and leaves storage and timestamps as they are.
C13_ClearIdempotentUnlessLookupFails ==
    [][\A t \in Threads, aget \in AgetOutcomes :
          ClearCheckpointerForThread(t, aget) =>
             /\ ~memory_saver \/ ~HasCheckpoint(t) => ~ClearRet
             /\ memory_saver /\ HasCheckpoint(t) /\ aget # "error"
                    => ClearRet /\ ~HasCheckpoint(t)'
             /\ aget = "error"
                    => ~ClearRet /\ UNCHANGED <<storage, checkpoint_timestamps>>
             /\ TrueThenFalse]_vars

\* A stored thread was cleared twice in a row while another stays stored.
C13_Witness ==
    /\ thread_clears.rets = <<TRUE, FALSE>>
    /\ ~HasCheckpoint(thread_clears.thread)
    /\ storage # {}

\* The entries of the threads other than t are as they were.
OthersUntouched(t) ==
    \A k \in StorageKeys :
        k[1] # t => /\ (k \in storage') = (k \in storage)
                    /\ checkpoint_timestamps'[k] = checkpoint_timestamps[k]

\* No entry of thread t is stored and its last write is not recorded.
ThreadGone(t) ==
    /\ \A k \in StorageKeys : k[1] = t => k \notin storage
    /\ checkpoint_timestamps[BareKey(t)] = None

\* C14 as stated: a call for an existing thread removes every storage entry
\* whose key begins with the thread and the thread's timestamp, and leaves
\* the entries and timestamps of the other threads unchanged.
C14_ClearRemovesThreadOnly ==
    [][\A t \in Threads, aget \in AgetOutcomes :
          ClearCheckpointerForThread(t, aget) /\ memory_saver /\ HasCheckpoint(t)
             => ThreadGone(t)' /\ OthersUntouched(t)]_vars

\* C14, amended: the same for a call whose lookup of the thread's state does
\* not fail with an error other than the shutdown RuntimeError; a call whose
\* lookup fails so changes no entry of any thread.
C14_ClearRemovesThreadOnlyUnlessLookupFails ==
    [][\A t \in Threads, aget \in AgetOutcomes :
          ClearCheckpointerForThread(t, aget) /\ memory_saver /\ HasCheckpoint(t)
             => /\ aget # "error" => ThreadGone(t)'
                /\ aget = "error" => UNCHANGED <<storage, checkpoint_timestamps>>
                /\ OthersUntouched(t)]_vars

\* A stored thread has been cleared while another thread keeps a key and
\* the timestamp of that key.
C14_Witness ==
    /\ thread_clears.rets = <<TRUE>>
    /\ ThreadGone(thread_clears.thread)
    /\ \E k \in storage : checkpoint_timestamps[k] # None

\* ------------------------------------------------------------ the expiry sweep

\* The sweep called with ttl_minutes runs at this step and finds a saver.
Sweeps(ttl_minutes) == CleanupExpiredCheckpoints(ttl_minutes) /\ memory_saver

\* C16: a stored key with no recorded timestamp is kept by the sweep that
\* meets it and gets the current time as its timestamp; a sweep deletes a key
\* only when its recorded timestamp is more than ttl + 30 s old; and the
\* timestamp of a key that stays stored never moves back.
C16_BackfillNotDeleted ==
    [][/\ \A ttl_minutes \in SweepTtls :
             Sweeps(ttl_minutes) =>
                /\ \A k \in storage :
                       checkpoint_timestamps[k] = None
                          => k \in storage' /\ checkpoint_timestamps'[k] = now
                /\ \A k \in storage \ storage' :
                       /\ checkpoint_timestamps[k] # None
                       /\ now - checkpoint_timestamps[k] > SweepThreshold(ttl_minutes)
       /\ \A k \in storage \cap storage' :
             checkpoint_timestamps[k] # None
                => /\ checkpoint_timestamps'[k] # None
                   /\ checkpoint_timestamps'[k] >= checkpoint_timestamps[k]]_vars

\* A sweep has met a per-checkpoint key, which nothing else gives a
\* timestamp, and has kept it and recorded a time for it.
C16_Witness ==
    /\ job.kind = "sweep"
    /\ \E k \in storage : Len(k) = 2 /\ checkpoint_timestamps[k] # None

\* C15: the sweep deletes every thread whose recorded last write is more than
\* ttl + 30 s old, leaves the storage entries of every thread with a smaller
\* recorded age as they are, and counts what it examined and what it deleted.
C15_SweepExpiryRule ==
    [][\A ttl_minutes \in SweepTtls :
          Sweeps(ttl_minutes) =>
             /\ \A t \in Threads :
                    HasCheckpoint(t) /\ checkpoint_timestamps[BareKey(t)] # None =>
                       IF now - checkpoint_timestamps[BareKey(t)]
                             > SweepThreshold(ttl_minutes)
                       THEN ~HasCheckpoint(t)'
                       ELSE \A k \in StorageKeys :
                               k[1] = t => (k \in storage') = (k \in storage)
             /\ job'.processed = Cardinality(storage)
             /\ job'.deleted = Cardinality(storage \ storage')]_vars

\* ------------------------------------------------------- forcing a refresh

\* One caller of each cache at a time.
ForceTasks == {1}

\* The model's one stage is critical or not.
InitForce ==
    /\ InitCommon /\ InitMcp /\ FactoryAtRest
    /\ InitMwCache
    /\ db \in [StageNames -> {DefaultRow, [DefaultRow EXCEPT !.is_critical = TRUE],
                              NoRow}]
    /\ db["A"] # NoRow /\ db["B"] = NoRow /\ db["C"] = NoRow

\* Both caches serve calls with and without force_refresh.
NextForce ==
    \/ \E t \in ForceTasks, force \in BOOLEAN : GetOrCreateMcpClientCall(t, force)
    \/ \E t \in ForceTasks, ttl \in CacheTtls \cup {FallbackTtl} : McpTtlRead(t, ttl)
    \/ \E t \in ForceTasks : McpQueryRaised(t)
    \/ \E t \in ForceTasks, n \in ServerCounts : McpServersQueried(t, n)
    \/ \E t \in ForceTasks : McpToolsDone(t)
    \/ \E t \in ForceTasks, m \in MwModels, force \in BOOLEAN :
           GetMiddlewareCall(t, m, force)
    \/ \E t \in ForceTasks, fail \in SUBSET StageNames : MwQueried(t, fail)
    \/ MTick

SpecForce == InitForce /\ [][NextForce]_vars

\* The call of get_or_create_mcp_client of task t returns at this step.
McpReturns(t) == mtask[t].pc # "done" /\ mtask'[t].pc = "done"

\* C21: a call with force_refresh=True is never served from the cache.
\* get_or_create_mcp_client queries the servers again and replaces the entry,
\* and what it returns is the client and the tool list the cache holds when it
\* returns, never the client that was cached before; get_middleware
\* instantiates the stages again and either raises or returns the new list,
\* which is the list the cache holds when it returns.
C21_ForceRefreshRebuilds ==
    [][/\ \A t \in MTasks :
             (McpReturns(t) /\ mtask'[t].force) =>
                /\ mtask'[t].out # "cached"
                /\ mtask'[t].q = 1
                /\ mtask'[t].ret = mcp_client'
                /\ mtask'[t].tools = mcp_tools'
                /\ mcp_timestamp' = mtask[t].now
                /\ mtask'[t].ret # None => mtask'[t].ret # mcp_client
       /\ \A t \in ForceTasks :
             (/\ wtask[t].pc = "w_query"
              /\ wtask'[t].pc = "idle"
              /\ wtask[t].force) =>
                /\ wlast'.out \in {"built", "raised"}
                /\ wlast'.out = "built" =>
                      /\ wlast'.ret = mw_middlewares'.id
                      /\ mw_middlewares'.id # mw_middlewares.id
                      /\ mw_middlewares'.stages = mw_middlewares'.built]_vars

\* Both caches held a valid entry and a forced call of each has returned a new
\* value, which is the cached one.
C21_Witness ==
    /\ \E t \in MTasks :
          /\ mtask[t].pc = "done"
          /\ mtask[t].force
          /\ mtask[t].seen # None
          /\ mtask[t].young
          /\ mtask[t].out = "built"
          /\ mtask[t].ret = mcp_client
          /\ mtask[t].ret # mtask[t].seen
    /\ wlast.found = "forced"
    /\ wlast.out = "built"
    /\ wlast.ret = mw_middlewares.id
    /\ mw_middlewares.id > 1

\* ---------------------------------------------------- clearing the tool cache

\* numbers of healthy servers a query lists while the cache is cleared
ClearServerCounts == {0, 1, 2}

\* The tool-client cache serves requests and is cleared, under one event loop.
NextClear ==
    \/ \E t \in MTasks, force \in BOOLEAN : GetOrCreateMcpClientCall(t, force)
    \/ \E t \in MTasks : McpLockAcquired(t)
    \/ \E t \in MTasks, ttl \in CacheTtls \cup {FallbackTtl} : McpTtlRead(t, ttl)
    \/ \E t \in MTasks : McpQueryRaised(t)
    \/ \E t \in MTasks, n \in ClearServerCounts : McpServersQueried(t, n)
    \/ \E t \in MTasks : McpToolsDone(t)
    \/ \E t \in MTasks : ClearMcpCacheCall(t)
    \/ \E t \in MTasks : ClearMcpLockAcquired(t)
    \/ MTick

SpecClear == InitMcpSpec /\ [][NextClear]_vars

\* The call of clear_mcp_cache of task t returns at this step.
ClearReturns(t) ==
    /\ mtask[t].pc \in {"idle", "done", "c_wait"}
    /\ mtask'[t].pc = "done"
    /\ mtask'[t].out = "cleared"
    /\ mtask'[t] # mtask[t] \/ ClearMcpCacheCall(t)

\* The cache holds no client, no tool list and no timestamp, and counts no
\* server.
McpCacheCleared ==
    /\ mcp_client = None
    /\ mcp_tools = None
    /\ mcp_timestamp = None
    /\ mcp_server_count = 0

\* C22: clear_mcp_cache returns the number of servers of the build whose
\* client is cached, and 0 when no client is cached, as after a clear; it
\* leaves the cache with no client, no tool list, no timestamp and a server
\* count of 0; and the call of get_or_create_mcp_client that checks the
\* cleared cache goes on to query the servers.
C22_ClearMcpCache ==
    [][/\ \A t \in MTasks :
             ClearReturns(t) =>
                /\ mtask'[t].cleared = (IF mcp_client # None THEN mcp_server_count
                                        ELSE 0)
                /\ McpCacheCleared'
                /\ McpCacheCleared => mtask'[t].cleared = 0
       /\ \A t \in MTasks :
             (McpReturns(t) /\ mtask'[t].out = "built") =>
                /\ mcp_server_count' = mtask[t].nsrv
                /\ mtask[t].nsrv >= 1
       /\ (mcp_client # None /\ mcp_client' = mcp_client) =>
             mcp_server_count' = mcp_server_count
       /\ \A t \in MTasks, ttl \in CacheTtls \cup {FallbackTtl} :
             (McpTtlRead(t, ttl) /\ McpCacheCleared) =>
                mtask'[t].pc = "m_query"]_vars

\* A build with two servers was cleared, which returned 2, then the cache was
\* cleared again, which returned 0.
C22_Witness ==
    /\ McpCacheCleared
    /\ \E t, u \in MTasks :
          /\ mtask[t].pc = "done" /\ mtask[t].out = "cleared"
          /\ mtask[t].cleared = 2
          /\ mtask[u].pc = "done" /\ mtask[u].out = "cleared"
          /\ mtask[u].cleared = 0

\* ----------------------------------------------------------- the TTL lookup

\* The tool-client cache serves requests whose lookups of the TTL succeed or
\* fail.
NextTtl ==
    \/ \E t \in MTasks, force \in BOOLEAN : GetOrCreateMcpClientCall(t, force)
    \/ \E t \in MTasks : McpLockAcquired(t)
    \/ \E t \in MTasks, lookup \in TtlLookups : McpTtlLookedUp(t, lookup)
    \/ \E t \in MTasks : McpQueryRaised(t)
    \/ \E t \in MTasks, n \in ServerCounts : McpServersQueried(t, n)
    \/ \E t \in MTasks : McpToolsDone(t)
    \/ MTick

SpecTtl == InitMcpSpec /\ [][NextTtl]_vars

\* C30: a call whose lookup of the TTL fails goes on with a TTL of 300 s, and
\* every call makes its validity check with the TTL its own lookup gave: it
\* returns the cached client when the call is not forced, a client is cached
\* and the entry is younger than that TTL, and queries the servers otherwise.
C30_TtlFallback ==
    [][\A t \in MTasks, lookup \in TtlLookups :
          McpTtlLookedUp(t, lookup) =>
             LET ttl == IF lookup.raised THEN FallbackTtl ELSE lookup.ttl
                 valid == /\ ~mtask[t].force
                          /\ mcp_client # None
                          /\ mtask[t].now - mcp_timestamp < ttl
             IN /\ mtask'[t].pc = (IF valid THEN "done" ELSE "m_query")
                /\ valid => /\ mtask'[t].out = "cached"
                            /\ mtask'[t].ret = mcp_client
                /\ UNCHANGED <<mcp_client, mcp_tools, mcp_timestamp,
                               mcp_server_count>>]_vars

\* At the same age of the entry, a call whose lookup failed was served the
\* cached client and a call whose lookup gave 60 s found it expired and built
\* another.
C30_Witness ==
    \E t, u \in MTasks :
       /\ mtask[t].pc = "done" /\ mtask[t].out = "cached"
       /\ mtask[t].lookup.raised
       /\ mtask[u].pc = "done" /\ mtask[u].out = "built"
       /\ ~mtask[u].force
       /\ ~mtask[u].lookup.raised
       /\ mtask[u].seen = mtask[t].ret
       /\ mtask[u].seen # None
       /\ ~mtask[u].young

\* ------------------------------------------------- the MemorySaver singleton

\* Messages enter and leave get_checkpointer() of checkpointer.py and write
\* checkpoints, and the checkpointer is reset.
NextSaver ==
    \/ \E t \in CTasks : GetMemorySaverEnter(t, "acquired")
    \/ \E t \in CTasks, body \in BodyOutcomes : GetMemorySaverExit(t, body)
    \/ \E t \in CTasks : ResetCheckpointer(t, "acquired")
    \/ \E th \in Threads : TrackCheckpointCreation(BareKey(th))
    \/ \E k \in StorageKeys : CheckpointWritten(k)

SpecSaver == InitMwSpec /\ [][NextSaver]_vars

\* C23: get_checkpointer() yields the MemorySaver the module holds and makes
\* one only when the module holds none; a MemorySaver is made only then and
\* by reset_checkpointer, and the module never goes back to holding none.
C23_SingletonSaver ==
    [][/\ \A t \in CTasks :
             GetMemorySaverEnter(t, "acquired") =>
                /\ memory_saver'
                /\ ctask'[t].got = saver_made'
                /\ memory_saver => saver_made' = saver_made
       /\ saver_made' # saver_made =>
             /\ saver_made' = saver_made + 1
             /\ \/ ~memory_saver
                \/ \E t \in CTasks : ResetCheckpointer(t, "acquired")
       /\ memory_saver => memory_saver'
       /\ \A t, u \in CTasks :
             (/\ ctask'[t].pc = "body" /\ ctask'[t].out = "yielded"
              /\ ctask'[u].pc = "body" /\ ctask'[u].out = "yielded"
              /\ ctask'[t].got # ctask'[u].got)
             => saver_made' > 1]_vars

\* Two coroutines are inside get_checkpointer() with the first MemorySaver,
\* the only one made.
C23_Witness ==
    /\ saver_made = 1
    /\ \A t \in CTasks : /\ ctask[t].pc = "body"
                         /\ ctask[t].out = "yielded"
                         /\ ctask[t].got = 1

\* --------------------------------------------------- resetting the checkpointer

\* The conversation threads that have a checkpoint in the storage.
ThreadsStored == {k[1] : k \in storage}

\* C26: reset_checkpointer() returns the number of conversation threads that
\* had a checkpoint, and 0 when there is no MemorySaver; after it the
\* MemorySaver is a new one, its storage is empty and no timestamp is left.
C26_ResetReturnsThreadCount ==
    [][\A t \in CTasks :
          ResetCheckpointer(t, "acquired") =>
             /\ ctask'[t].count = (IF memory_saver THEN Cardinality(ThreadsStored)
                                   ELSE 0)
             /\ memory_saver =>
                   /\ saver_made' = saver_made + 1
                   /\ storage' = {}
                   /\ \A k \in StorageKeys : checkpoint_timestamps'[k] = None]_vars

\* ------------------------------------------- an interpreter that shuts down

\* One caller of each cache at a time.
DegradeTasks == {1}

\* The public operations of the tool-client cache and of checkpointer.py are
\* called, one at a time, in a process whose interpreter may be shutting
\* down: `async with lock`, the queries, the lookups and the callers' blocks
\* may raise.
NextDegrade ==
    \/ \E t \in DegradeTasks, force \in BOOLEAN : GetOrCreateMcpClientCall(t, force)
    \/ \E t \in DegradeTasks, acq \in LockOutcomes \ {"acquired"} :
           GetOrCreateMcpClientRaises(t, acq)
    \/ \E t \in DegradeTasks, lookup \in TtlLookups : McpTtlLookedUp(t, lookup)
    \/ \E t \in DegradeTasks : McpQueryRaised(t)
    \/ \E t \in DegradeTasks, n \in ServerCounts : McpServersQueried(t, n)
    \/ \E t \in DegradeTasks : McpToolsDone(t)
    \/ \E t \in DegradeTasks : ClearMcpCacheCall(t)
    \/ \E t \in DegradeTasks, acq \in LockOutcomes \ {"acquired"} :
           ClearMcpCacheRaises(t, acq)
    \/ \E t \in DegradeTasks, acq \in LockOutcomes : ShutdownMcpClient(t, acq)
    \/ \E t \in DegradeTasks, acq \in LockOutcomes : GetMemorySaverEnter(t, acq)
    \/ \E t \in DegradeTasks, body \in BodyOutcomes : GetMemorySaverExit(t, body)
    \/ \E t \in DegradeTasks, acq \in LockOutcomes : ResetCheckpointer(t, acq)
    \/ \E k \in ThreadKeys : CheckpointWritten(k)
    \/ \E th \in Threads, aget \in AgetOutcomes : ClearCheckpointerForThread(th, aget)

SpecDegrade == InitMwSpec /\ [][NextDegrade]_vars

\* C24: an operation in which the shutdown RuntimeError arises does not
\* raise: get_checkpointer yields None or, when its caller's block met the
\* error, ends; get_or_create_mcp_client returns (None, []);
\* clear_checkpointer_for_thread returns a boolean; clear_mcp_cache and
\* reset_checkpointer return a count; shutdown_mcp_client returns and leaves
\* the cache reset.
C24_ShutdownDegrades ==
    [][\A t \in DegradeTasks :
          /\ GetMemorySaverEnter(t, "shutdown") =>
                /\ ctask'[t].pc = "body"
                /\ ctask'[t].got = None
          /\ GetMemorySaverExit(t, "shutdown") => ctask'[t].out = "exited"
          /\ ResetCheckpointer(t, "shutdown") =>
                /\ ctask'[t].out = "count"
                /\ ctask'[t].count \in Nat
          /\ GetOrCreateMcpClientRaises(t, "shutdown") =>
                /\ mtask'[t].pc = "done"
                /\ mtask'[t].ret = None
                /\ mtask'[t].tools = NoTools
          /\ McpQueryRaised(t) =>
                /\ mtask'[t].pc = "done"
                /\ mtask'[t].ret = None
                /\ mtask'[t].tools = NoTools
          /\ ClearMcpCacheRaises(t, "shutdown") =>
                /\ mtask'[t].out = "cleared"
                /\ mtask'[t].cleared \in Nat
          /\ ShutdownMcpClient(t, "shutdown") =>
                /\ mtask'[t].out = "shut_down"
                /\ McpCacheCleared'
          /\ \A th \in Threads :
                ClearCheckpointerForThread(th, "shutdown") =>
                   thread_clears'.rets[Len(thread_clears'.rets)] \in BOOLEAN]_vars

\* ------------------------------------------------------ locks and event loops

\* The framework ends the running loop while no coroutine is inside an
\* operation of a cache.
LoopSwitchAtRest ==
    /\ \A t \in WTasks : wtask[t].pc = "idle"
    /\ \A t \in CTasks : ctask[t].pc \in {"idle", "done"}
    /\ LoopSwitch

\* One caller of the tool-client cache and of the MemorySaver singleton.
LockTasks == {1}

\* The three caches are used under one event loop after another, and the
\* cache-invalidation hook clears the middleware cache in a loop of its own.
NextLocks ==
    \/ \E t \in LockTasks : ClearMcpCacheCall(t)
    \/ \E t \in LockTasks : ResetCheckpointer(t, "acquired")
    \/ \E t \in WTasks, m \in MwModels, force \in BOOLEAN :
           GetMiddlewareCall(t, m, force)
    \/ \E t \in WTasks : MwLockAcquired(t)
    \/ \E t \in WTasks, fail \in SUBSET StageNames : MwQueried(t, fail)
    \/ ReceiveJobHook
    \/ LoopSwitchAtRest

SpecLocks == InitMwSpec /\ [][NextLocks]_vars

\* C25: a coroutine takes a cache lock only under the loop the lock belongs
\* to: the lock of the tool-client cache and that of the MemorySaver
\* singleton are, when taken, locks of the running loop, and _cache_lock of
\* the middleware cache is bound to no other loop than the one of the
\* coroutine that takes it or waits for it, so that no acquisition fails.
C25_LocksOfRunningLoop ==
    [][/\ \A t \in LockTasks :
             ClearMcpCacheCall(t) => cache_lock_loop' = cur_loop
       /\ \A t \in LockTasks :
             ResetCheckpointer(t, "acquired") => saver_lock_loop' = cur_loop
       /\ \A t \in WTasks :
             (wtask[t].pc = "idle" /\ wtask'[t].pc # "idle") =>
                wlock_loop \in {None, cur_loop}
       /\ \A t \in WTasks : MwLockAcquired(t) => wlock_loop = cur_loop
       /\ ReceiveJobHook => wlock_loop \in {None, JobLoop}
       /\ wlast'.out # "runtime_error"]_vars

\* ------------------------------------------------------- the fallback chain

\* The call of task t has gone on to the secondary backend.
OnSecondary(t) ==
    \/ ftask'[t].pc \in {"p_close_old", "p_close_azure", "p_open", "p_setup"}
    \/ /\ ftask'[t].pc = "done"
       /\ ftask'[t].out = "ok"
       /\ ftask'[t].ret # None
       /\ res_kind'[ftask'[t].ret] = "memory_store"

\* C27: when the construction of the Redis backend fails, get_checkpointer
\* and get_store go on to the secondary backend only for the recognised
\* failure, an authentication error in a DEV environment; any other failure
\* is raised to the caller and no secondary backend answers the call.
C27_FallbackOnlyOnRecognisedFailure ==
    [][\A t \in FTasks :
          /\ (RedisSetupEnded(t, "dev_auth_error")
                \/ StoreSetupEnded(t, "dev_auth_error")) => OnSecondary(t)
          /\ (RedisSetupEnded(t, "error") \/ StoreSetupEnded(t, "error")) =>
                /\ ftask'[t].pc = "done"
                /\ ftask'[t].out = "raised"
                /\ NoConstruct]_vars

\* ------------------------------------------------ closing before replacing

CloseOldPcs == {"r_close_old", "p_close_old", "s_close_old"}

\* The resource the call of task t returned is the one the module caches for
\* its agent, recorded under the running loop.
CachedUnderLoop(t) ==
    LET a == ftask[t].agent  r == ftask[t].ret IN
    \/ redis_checkpointers[a] = r /\ checkpointer_event_loops[a] = cur_loop
    \/ connection_pools[a] = r /\ pool_event_loops[a] = cur_loop
    \/ redis_stores[a] = r /\ store_event_loops[a] = cur_loop

\* C29: when get_checkpointer or get_store finds a cached resource recorded
\* under another event loop, the close of that resource is attempted before
\* any replacement is constructed; a close that raises leaves the call and
\* the caches exactly as a close that returns does, and the call then
\* constructs the replacement for the running loop; a replacement whose
\* setup succeeds is cached under the running loop and returned.
C29_BestEffortCloseBeforeReplace ==
    [][\A t \in FTasks :
          LET tk == ftask[t]  tn == ftask'[t]  a == tk.agent IN
          /\ (tk.pc \notin CloseOldPcs /\ tn.pc \in CloseOldPcs) =>
                /\ closes'[tn.old] >= 1
                /\ res_loop[tn.old] # cur_loop
                /\ next_res' = next_res
          /\ RedisCloseOldEnded(t, TRUE) =>
                /\ RedisCloseOldEnded(t, FALSE)
                /\ tn.pc = "r_resetup"
                /\ res_kind'[tn.new] = "redis_saver"
                /\ res_loop'[tn.new] = cur_loop
          /\ StoreCloseOldEnded(t, TRUE) =>
                /\ StoreCloseOldEnded(t, FALSE)
                /\ tn.pc = "s_resetup"
                /\ res_kind'[tn.new] = "redis_store"
                /\ res_loop'[tn.new] = cur_loop
          /\ PoolCloseOldEnded(t, TRUE) =>
                /\ PoolCloseOldEnded(t, FALSE)
                /\ connection_pools[a] # None =>
                      /\ tn.pc = "p_open"
                      /\ res_kind'[tn.new] = "pool"
                      /\ res_loop'[tn.new] = cur_loop
          /\ (tk.pc \in {"r_resetup", "s_resetup"} /\ tn.pc = "done"
                /\ tn.out = "ok" /\ tn.ret = tk.new) =>
                \/ redis_checkpointers'[a] = tk.new
                      /\ checkpointer_event_loops'[a] = cur_loop
                \/ redis_stores'[a] = tk.new /\ store_event_loops'[a] = cur_loop
      ]_vars

\* A call found the resource of another loop, closed it, and returned a
\* replacement that the module caches under the running loop.
C29_Witness ==
    \E t \in FTasks, r \in Res :
        /\ ftask[t].pc = "done" /\ ftask[t].out = "ok"
        /\ ftask[t].mism # NoName
        /\ res_kind[ftask[t].ret] = ftask[t].mism
        /\ CachedUnderLoop(t)
        /\ res_kind[r] = ftask[t].mism
        /\ res_loop[r] # cur_loop
        /\ closes[r] >= 1
        /\ r # ftask[t].ret

\* ------------------------------------------- deep_mcp_agent.process_message

\* deep_mcp_agent.py:300: asyncio.wait_for(graph.ainvoke(...), timeout=120)
InvokeTimeout == 120

\* deep_mcp_agent.py:105-245: the awaits of build_deep_agent, in order: the
\* default model and its LLM, tool discovery, the checkpointer, the store,
\* the middleware pipeline, and the prompt, subagents and graph.
BuildStages == <<"model", "tools", "checkpointer", "store", "middleware", "graph">>

\* what an awaited call can raise, as the handlers of process_message tell
\* them apart (deep_mcp_agent.py:327-353)
AwaitErrors == {"timeout_error", "loop_runtime_error", "runtime_error", "exception"}

\* deep_mcp_agent.py:327-353: the handlers of process_message.  A
\* TimeoutError is answered with the timeout message; a RuntimeError that
\* names a loop clears the factories' caches and is answered with the reset
\* message; another RuntimeError is re-raised; any other exception is
\* answered with its text.
Answered(t, err) ==
    /\ ptask' = [ptask EXCEPT ![t] =
           [IdleP EXCEPT !.pc = "done",
                         !.out = CASE err = "timeout_error" -> "timeout"
                                   [] err = "loop_runtime_error" -> "reset"
                                   [] err = "runtime_error" -> "raised"
                                   [] OTHER -> "error"]]
    /\ IF err = "loop_runtime_error"
       THEN /\ redis_checkpointers' = [a \in Agents |-> None]
            /\ connection_pools' = [a \in Agents |-> None]
            /\ redis_stores' = [a \in Agents |-> None]
       ELSE UNCHANGED <<redis_checkpointers, connection_pools, redis_stores>>

\* what no step of process_message touches
UnchangedByRequest ==
    UNCHANGED <<pool_creation_times, checkpointer_event_loops, pool_event_loops,
                memory_stores, store_event_loops, redis_url, auth_method, fmode,
                res_kind, res_loop, closes, next_res, ftask, avars, now,
                cur_loop, mvars, wvars>>

\* deep_mcp_agent.py:252-293: process_message is called.  A request already
\* cancelled is answered at once; otherwise build_deep_agent is awaited,
\* outside any timeout, and suspends at its first await.
ProcessMessageCall(t, cancelled) ==
    /\ ptask[t].pc = "idle"
    /\ ptask' = [ptask EXCEPT ![t] =
           IF cancelled
           THEN [IdleP EXCEPT !.pc = "done", !.out = "cancelled"]
           ELSE [IdleP EXCEPT !.pc = "build", !.stage = 1]]
    /\ UNCHANGED <<redis_checkpointers, connection_pools, redis_stores>>
    /\ UnchangedByRequest

\* deep_mcp_agent.py:105-300: the await build_deep_agent is suspended at
\* returns.  It goes on to its next await; after the last one the graph is
\* returned and graph.ainvoke is awaited under asyncio.wait_for, whose timer
\* starts here.
BuildAwaitReturns(t) ==
    LET tk == ptask[t] IN
    /\ tk.pc = "build"
    /\ ptask' = [ptask EXCEPT ![t] =
           IF tk.stage < Len(BuildStages)
           THEN [tk EXCEPT !.stage = tk.stage + 1]
           ELSE [tk EXCEPT !.pc = "invoke", !.stage = 0, !.waited = 0]]
    /\ UNCHANGED <<redis_checkpointers, connection_pools, redis_stores>>
    /\ UnchangedByRequest

\* deep_mcp_agent.py:247-249 and 327-353: the await build_deep_agent is
\* suspended at raises; build_deep_agent logs and re-raises, and the
\* handlers of process_message answer.
BuildAwaitRaises(t, err) ==
    /\ ptask[t].pc = "build"
    /\ Answered(t, err)
    /\ UnchangedByRequest

\* The clock of the loop moves: every wait_for that has not reached its
\* timeout has waited PTickStep seconds more.
WaitForTick ==
    /\ \E t \in PTasks : ptask[t].pc = "invoke" /\ ptask[t].waited < InvokeTimeout
    /\ ptask' = [t \in PTasks |->
           IF ptask[t].pc = "invoke" /\ ptask[t].waited < InvokeTimeout
           THEN [ptask[t] EXCEPT !.waited = @ + PTickStep]
           ELSE ptask[t]]
    /\ UNCHANGED <<redis_checkpointers, connection_pools, redis_stores>>
    /\ UnchangedByRequest

\* deep_mcp_agent.py:299-325: graph.ainvoke returns before the timer of
\* wait_for fires; the text of the last message is returned.
InvokeReturns(t) ==
    /\ ptask[t].pc = "invoke"
    /\ ptask[t].waited < InvokeTimeout
    /\ ptask' = [ptask EXCEPT ![t] = [IdleP EXCEPT !.pc = "done", !.out = "response"]]
    /\ UNCHANGED <<redis_checkpointers, connection_pools, redis_stores>>
    /\ UnchangedByRequest

\* deep_mcp_agent.py:299-353: graph.ainvoke raises before the timer fires.
InvokeRaises(t, err) ==
    /\ ptask[t].pc = "invoke"
    /\ ptask[t].waited < InvokeTimeout
    /\ Answered(t, err)
    /\ UnchangedByRequest

\* deep_mcp_agent.py:299-301 and 327-329: the timer of wait_for fires, the
\* invocation is cancelled and asyncio.TimeoutError reaches the handler.
WaitForTimesOut(t) ==
    /\ ptask[t].pc = "invoke"
    /\ ptask[t].waited >= InvokeTimeout
    /\ Answered(t, "timeout_error")
    /\ UnchangedByRequest

\* Requests are processed; the factories and the caches are not otherwise
\* used.  The loop's clock moves and a timer that is due fires; whether an
\* awaited call (a database query, a server's reply, the model's answer)
\* ever completes is up to the other side.
NextRequest ==
    \/ \E t \in PTasks, cancelled \in BOOLEAN : ProcessMessageCall(t, cancelled)
    \/ \E t \in PTasks : BuildAwaitReturns(t)
    \/ \E t \in PTasks, err \in AwaitErrors : BuildAwaitRaises(t, err)
    \/ WaitForTick
    \/ \E t \in PTasks : InvokeReturns(t)
    \/ \E t \in PTasks, err \in AwaitErrors : InvokeRaises(t, err)
    \/ \E t \in PTasks : WaitForTimesOut(t)

SpecRequest ==
    /\ InitMcpSpec
    /\ [][NextRequest]_vars
    /\ WF_vars(WaitForTick)
    /\ \A t \in PTasks : WF_vars(WaitForTimesOut(t))

\* C28: a call of process_message that was not cancelled is eventually
\* answered, whichever of its awaited steps (tool discovery, checkpointer
\* and store construction, pipeline build, model invocation) never
\* completes: the one timeout covers them all.
C28_OneTimeoutCoversRequest ==
    \A t \in PTasks :
        (ptask[t].pc \in {"build", "invoke"}) ~> (ptask[t].pc = "done")

\* ------------------------------------------- one cache entry for each model

\* Two models own one active LLMMiddleware row each; requests for both are
\* served under one event loop while the clock moves.
InitOwners ==
    /\ InitCommon /\ InitMcp /\ FactoryAtRest /\ InitMwCache
    /\ db = [n \in StageNames |->
                IF n = "A" THEN DefaultRow
                ELSE IF n = "B" THEN [DefaultRow EXCEPT !.llm_model = 2]
                ELSE NoRow]

NextOwners ==
    \/ \E t \in WTasks, m \in OwnerModels, force \in BOOLEAN :
           GetMiddlewareCall(t, m, force)
    \/ \E t \in WTasks : MwLockAcquired(t)
    \/ \E t \in WTasks, fail \in SUBSET StageNames : MwQueried(t, fail)
    \/ WTick

SpecOwners == InitOwners /\ [][NextOwners]_vars

\* A list was built for model m, less than the TTL ago, from the rows m has
\* now.
EntryLives(m) ==
    /\ keyed[m] # NoEntry
    /\ keyed[m].hash = ConfigHash(QueryActive(m))
    /\ now - keyed[m].at < CACHE_TTL_SECONDS

\* C31: a get_middleware call without force_refresh, for a model whose list
\* was built less than the TTL ago from the rows the model still has, returns
\* that list and instantiates nothing, whatever other models were served in
\* between.
C31_PerOwnerEntries ==
    [][\A t \in WTasks :
          (/\ wtask[t].pc = "w_query" /\ wtask'[t].pc = "idle"
           /\ ~wtask[t].force
           /\ EntryLives(wtask[t].model)) =>
             /\ wlast'.out = "cached"
             /\ wlast'.ret = keyed[wtask[t].model].id
             /\ next_build' = next_build]_vars

\* ------------------------------------------------- a message refreshes a thread

\* multi_mcp_agent.py:511-518: the graph of a request writes checkpoints of
\* its thread after the request has called track_checkpoint_creation.
RequestWrites(k) ==
    /\ checkpoint_timestamps[BareKey(k[1])] # None
    /\ CheckpointWritten(k)

\* Messages are tracked and their checkpoints written, threads are cleared
\* and the sweep runs while the clock moves; every timestamp of a bare key is
\* that of the thread's last track_checkpoint_creation call.
NextRefresh ==
    \/ \E t \in Threads : TrackCheckpointCreation(BareKey(t))
    \/ \E k \in StorageKeys : RequestWrites(k)
    \/ \E t \in Threads, aget \in AgetOutcomes : ClearCheckpointerForThread(t, aget)
    \/ \E ttl_minutes \in SweepTtls : CleanupExpiredCheckpoints(ttl_minutes)
    \/ WTick

SpecRefresh == InitMwSpec /\ [][NextRefresh]_vars

\* The last track_checkpoint_creation call for thread t is at most
\* ttl + 30 s old.
RecentlyTracked(t, ttl_minutes) ==
    /\ checkpoint_timestamps[BareKey(t)] # None
    /\ now - checkpoint_timestamps[BareKey(t)] <= SweepThreshold(ttl_minutes)

\* Under SpecRefresh no sweep gives a bare key a timestamp: the timestamp of
\* a bare key is always one that track_checkpoint_creation recorded.
BareTimestampsAreTracked ==
    [][\A ttl_minutes \in SweepTtls :
          Sweeps(ttl_minutes) =>
             \A t \in Threads :
                 checkpoint_timestamps[BareKey(t)] = None =>
                    checkpoint_timestamps'[BareKey(t)] = None]_vars

\* C32: a sweep deletes no storage entry, bare key or per-checkpoint key, of
\* a thread whose last track_checkpoint_creation call is at most ttl + 30 s
\* old, whatever sweeps ran before.
C32_RefreshProtectsThread ==
    [][\A ttl_minutes \in SweepTtls :
          Sweeps(ttl_minutes) =>
             \A t \in Threads :
                 RecentlyTracked(t, ttl_minutes) =>
                    \A k \in storage : k[1] = t => k \in storage']_vars

\* --------------------------------------------- the sweep and a whole thread

\* The sweep deletes thread t as expired: the thread's key is stored and the
\* time recorded for it is more than ttl + 30 s old.
DeletedAsExpired(t, ttl_minutes) ==
    /\ BareKey(t) \in Expired(ttl_minutes)
    /\ BareKey(t) \notin storage'

\* C33: when the sweep has deleted a thread as expired, no storage key that
\* starts with the thread's id is left and no time is recorded for the
\* thread, as after clear_checkpointer_for_thread for that thread.
C33_SweepDeletesWholeThread ==
    [][\A ttl_minutes \in SweepTtls :
          Sweeps(ttl_minutes) =>
             \A t \in Threads :
                 DeletedAsExpired(t, ttl_minutes) =>
                    /\ \A k \in storage' : k[1] # t
                    /\ checkpoint_timestamps'[BareKey(t)] = None]_vars

\* ------------------------------------------------- closed resources

\* The call of task t returns a resource in this step.
HandsOut(t, r) ==
    /\ ftask[t].pc # "done"
    /\ ftask'[t].pc = "done"
    /\ ftask'[t].out = "ok"
    /\ ftask'[t].ret = r

\* C34: whatever the interleaving of the calls at their awaits, no call
\* returns a checkpointer, pool or store whose close has been called, and
\* close is called at most once on a resource.
C34_NoClosedResourceHandedOut ==
    [][/\ \A t \in FTasks, r \in Res : HandsOut(t, r) => closes'[r] = 0
       /\ \A r \in Res : closes'[r] <= 1]_vars

\* ------------------------------------------- resource maps and loop-id maps

\* the one request whose failure is followed here
ResetTasks == {1}

\* The factories serve requests while a deep-agent request fails in
\* build_deep_agent, among others with a RuntimeError that names a loop.
NextReset ==
    \/ NextFactory
    \/ \E t \in ResetTasks : ProcessMessageCall(t, FALSE)
    \/ \E t \in ResetTasks, err \in AwaitErrors : BuildAwaitRaises(t, err)

SpecReset == Init /\ [][NextReset]_vars

\* the agents a map has an entry for
Names(map) == {a \in Agents : map[a] # None}

NoFactoryCallInProgress == \A t \in FTasks : ftask[t].pc \in {"idle", "done"}

\* Resource r leaves the map in this step.
Removed(map, mapNext, r) ==
    \E a \in Agents : map[a] = r /\ r # None /\ mapNext[a] = None

\* C35: whenever no factory call is in progress, each resource map has
\* entries for the same agents as its loop-id map; and a resource leaves a
\* map only after its close has been called.
C35_MapsInStep ==
    /\ [](NoFactoryCallInProgress =>
            /\ Names(redis_checkpointers) = Names(checkpointer_event_loops)
            /\ Names(connection_pools) = Names(pool_event_loops)
            /\ Names(redis_stores) = Names(store_event_loops))
    /\ [][\A r \in Res :
             (\/ Removed(redis_checkpointers, redis_checkpointers', r)
              \/ Removed(connection_pools, connection_pools', r)
              \/ Removed(redis_stores, redis_stores', r)) => closes'[r] >= 1]_vars

\* ------------------------------------------------ ToolErrorHandlerMiddleware

\* values of max_retries a ToolErrorHandlerMiddleware is constructed with
\* (deep_mcp_agent.py:156: int(os.getenv("TOOL_MAX_RETRIES", "2")))
RetryLimits == {0 - 1, 0, 1, DefaultMaxRetries}
\* ids and names of tool calls; a tool call may have no "name"
ToolCallIds == {"call_1", "call_2"}
ToolNames == {"search", NoName}
\* some of RETRIABLE_KEYWORDS (middleware.py:42-56)
Keywords == {"connection", "timeout"}
\* An exception of the handler, as far as _is_retriable tells them apart: the
\* keywords that str(e).lower() contains.
HandlerErrors == [keywords : SUBSET Keywords]
\* what a handler returns: a ToolMessage of either status, for some tool call
HandlerResults ==
    [status : {"success", "error"}, tool_call_id : ToolCallIds,
     name : {"search"}, content : {NoError}]

\* (a check that finds every error retriable)
IsRetriableAlways(e) == TRUE

\* middleware.py:119-122: _is_retriable
IsRetriable(e) == \E k \in Keywords : k \in e.keywords

\* middleware.py:81: request.tool_call.get("name", "unknown")
ToolName(name) == IF name = NoName THEN "unknown" ELSE name

\* (an error message that does not name the tool call)
ErrorMessageNoId(tk) ==
    [status |-> "error", tool_call_id |-> NoName, name |-> ToolName(tk.name),
     content |-> tk.last_error]

\* middleware.py:110-117: the ToolMessage returned for a failed call; its
\* content is built from repr(last_error)
ErrorMessage(tk) ==
    [status |-> "error", tool_call_id |-> tk.id, name |-> ToolName(tk.name),
     content |-> tk.last_error]

\* what no step of the agents' middleware touches
UnchangedByMiddleware ==
    UNCHANGED <<ptask, redis_checkpointers, connection_pools,
                redis_stores, pool_creation_times, checkpointer_event_loops,
                pool_event_loops, memory_stores, store_event_loops, redis_url,
                auth_method, fmode, res_kind, res_loop, closes, next_res, ftask,
                now, cur_loop, mvars, wvars>>

\* what no step of awrap_tool_call touches
UnchangedByToolCall ==
    UnchangedByMiddleware /\ UNCHANGED <<max_retries, sem, stask, node, plan_state>>

\* middleware.py:70-117: awrap_tool_call is entered.  With max_retries + 1
\* iterations to make it awaits the handler; with none (max_retries below 0)
\* the loop is skipped and the error message is returned at once.
AwrapToolCall(id, name) ==
    LET call == [IdleT EXCEPT !.id = id, !.name = name] IN
    /\ tcall.pc \in {"idle", "done"}
    /\ tcall' = IF max_retries + 1 > 0
                THEN [call EXCEPT !.pc = "handler", !.calls = 1]
                ELSE [call EXCEPT !.pc = "done", !.out = "returned",
                                  !.result = ErrorMessage(call)]
    /\ UnchangedByToolCall

\* middleware.py:87-92: the handler returns; its result is returned.
HandlerReturns(res) ==
    /\ tcall.pc = "handler"
    /\ tcall' = [tcall EXCEPT !.pc = "done", !.out = "returned", !.result = res]
    /\ UnchangedByToolCall

\* middleware.py:94-117: the handler raises an Exception.  On the last
\* iteration, or when the error is not retriable, the loop is left and the
\* error message returned; else the call sleeps retry_delay seconds.
HandlerRaises(e) ==
    LET tk == [tcall EXCEPT !.last_error = e] IN
    /\ tcall.pc = "handler"
    /\ tcall' = IF tk.attempt >= max_retries \/ ~IsRetriable(e)
                THEN [tk EXCEPT !.pc = "done", !.out = "returned",
                                !.result = ErrorMessage(tk)]
                ELSE [tk EXCEPT !.pc = "sleep"]
    /\ UnchangedByToolCall

\* middleware.py:85-87 and 108: asyncio.sleep returns; the next iteration
\* awaits the handler again.
RetrySleepDone ==
    /\ tcall.pc = "sleep"
    /\ tcall.attempt + 1 < max_retries + 1
    /\ tcall' = [tcall EXCEPT !.pc = "handler", !.attempt = @ + 1,
                              !.calls = @ + 1]
    /\ UnchangedByToolCall

\* middleware.py:87 and 108: the task is cancelled while it awaits the
\* handler or sleeps.  asyncio.CancelledError is no Exception: no handler of
\* awrap_tool_call catches it and it leaves the call.
ToolCallCancelled ==
    /\ tcall.pc \in {"handler", "sleep"}
    /\ tcall' = [tcall EXCEPT !.pc = "done", !.out = "cancelled"]
    /\ UnchangedByToolCall

\* One ToolErrorHandlerMiddleware, constructed with some max_retries, wraps
\* one tool call after another.
InitTools ==
    /\ InitCommon /\ InitMcp /\ MwAtRest
    /\ InitFactoryState /\ ~redis_url /\ fmode = "get_store"
    /\ max_retries \in RetryLimits
    /\ tcall = IdleT
    /\ sem = NewSemanticCache(FALSE)
    /\ stask = [t \in STasks |-> IdleS]
    /\ WorkflowAtRest

NextTools ==
    \/ \E id \in ToolCallIds, name \in ToolNames : AwrapToolCall(id, name)
    \/ \E res \in HandlerResults : HandlerReturns(res)
    \/ \E e \in HandlerErrors : HandlerRaises(e)
    \/ RetrySleepDone
    \/ ToolCallCancelled

SpecTools == InitTools /\ [][NextTools]_vars

\* C36: one awrap_tool_call invokes the handler at most max_retries + 1
\* times (3 with the default); the invocation that succeeds is the last one;
\* and after a failure whose message has none of the retriable keywords no
\* further invocation is made.
C36_BoundedRetry ==
    [][/\ tcall'.calls <= (IF max_retries + 1 > 0 THEN max_retries + 1 ELSE 0)
       /\ max_retries = DefaultMaxRetries => tcall'.calls <= 3
       /\ tcall.pc = "done" /\ tcall'.pc = "done" => tcall'.calls <= 1
       /\ \A res \in HandlerResults :
             HandlerReturns(res) => tcall'.pc = "done" /\ tcall'.calls = tcall.calls
       /\ \A e \in HandlerErrors :
             (HandlerRaises(e) /\ e.keywords = {}) =>
                tcall'.pc = "done" /\ tcall'.calls = tcall.calls
       /\ tcall'.calls > tcall.calls =>
             \/ tcall.pc \in {"idle", "done"}
             \/ tcall.pc = "sleep" /\ IsRetriable(tcall.last_error)]_vars

\* A call with the default max_retries made its third invocation of the
\* handler after two retriable failures, and a call ended after one
\* invocation that failed with an error that is not retriable.
C36_Witness ==
    /\ max_retries = DefaultMaxRetries
    /\ tcall.pc = "done"
    /\ tcall.out = "returned"
    /\ tcall.calls = 3
    /\ tcall.result.status = "success"
    /\ IsRetriable(tcall.last_error)

\* C37: awrap_tool_call lets no exception of the handler out.  When the
\* handler returns, the call returns that very result; when the handler
\* raises, the call either sleeps for a retry or, with the attempts used up
\* or an error that is not retriable, returns a ToolMessage of status "error"
\* with the id and the name of the tool call it wraps.
C37_ErrorsBecomeValues ==
    [][/\ \A res \in HandlerResults :
             HandlerReturns(res) =>
                tcall'.pc = "done" /\ tcall'.out = "returned" /\ tcall'.result = res
       /\ \A e \in HandlerErrors :
             HandlerRaises(e) =>
                /\ tcall'.out \in {NoName, "returned"}
                /\ tcall'.pc = "done" <=>
                      (tcall.attempt >= max_retries \/ e.keywords \cap Keywords = {})
                /\ tcall'.pc = "done" =>
                      /\ tcall'.out = "returned"
                      /\ tcall'.result.status = "error"
                      /\ tcall'.result.tool_call_id = tcall.id
                      /\ tcall'.result.name =
                            (IF tcall.name = NoName THEN "unknown" ELSE tcall.name)
                      /\ tcall'.result.content = e
                /\ tcall'.pc # "done" => tcall'.pc = "sleep" /\ tcall'.result = NoResult
       /\ tcall'.out = "raised" => tcall.out = "raised"]_vars

\* A call for a tool call without a name used up its three attempts on
\* retriable errors and returned the error message for its tool call.
C37_Witness ==
    /\ max_retries = DefaultMaxRetries
    /\ tcall.pc = "done"
    /\ tcall.out = "returned"
    /\ tcall.calls = 3
    /\ tcall.id = "call_2"
    /\ tcall.name = NoName
    /\ tcall.result = [status |-> "error", tool_call_id |-> "call_2",
                       name |-> "unknown", content |-> tcall.last_error]
    /\ IsRetriable(tcall.last_error)

\* ------------------------------------------------- SemanticCacheMiddleware

\* (a second check that never finds the cache initialized)
DoubleCheckSkipped(s) == FALSE

\* middleware.py:199-200: the check of _initialized repeated under the lock
DoubleCheck(s) == s.initialized

\* middleware.py:190-191 and 199-200: `return self.cache is not None`
CacheAvailable(s) == IF s.cache # "None" THEN "True" ELSE "False"

\* middleware.py:262-266: the handler of the try block; the end of
\* `async with lock` releases the lock.
InitFailed(s) ==
    [s EXCEPT !.cache = "None", !.initialized = TRUE, !.finished = @ + 1,
              !.lock_owner = 0]

\* middleware.py:237-260: the cache is constructed
InitSucceeded(s) ==
    [s EXCEPT !.cache = "SemanticCache", !.initialized = TRUE, !.finished = @ + 1,
              !.lock_owner = 0]

\* middleware.py:197-209: coroutine t holds the lock in state s.  It returns
\* when the cache is initialized by now or no Redis URL is configured, else
\* it enters the try block and awaits the embedding of "test" in a thread.
UnderInitLock(t, s) ==
    IF DoubleCheck(s)
    THEN /\ sem' = [s EXCEPT !.lock_owner = 0]
         /\ stask' = [stask EXCEPT ![t] = [pc |-> "idle", ret |-> CacheAvailable(s)]]
    ELSE IF ~s.redis_url
    THEN /\ sem' = [s EXCEPT !.initialized = TRUE, !.lock_owner = 0]
         /\ stask' = [stask EXCEPT ![t] = [pc |-> "idle", ret |-> "False"]]
    ELSE /\ sem' = [s EXCEPT !.constructions = @ + 1]
         /\ stask' = [stask EXCEPT ![t] = [pc |-> "embedding", ret |-> NoName]]

\* what no step of _ensure_cache_initialized touches
UnchangedBySemanticCache ==
    UnchangedByMiddleware /\ UNCHANGED <<max_retries, tcall, node, plan_state>>

\* middleware.py:188-197: _ensure_cache_initialized is called.  An initialized
\* cache is answered at once; else the caller takes the lock of the running
\* loop, which asyncio.Lock.acquire grants without suspending when the lock
\* is free and nobody waits, or queues for it.
EnsureCacheInitialized(t) ==
    /\ stask[t].pc = "idle"
    /\ IF sem.initialized
       THEN /\ stask' = [stask EXCEPT ![t] = [pc |-> "idle", ret |-> CacheAvailable(sem)]]
            /\ sem' = sem
       ELSE IF sem.lock_owner = 0 /\ sem.lock_waiters = <<>>
       THEN UnderInitLock(t, [sem EXCEPT !.lock_owner = t])
       ELSE /\ sem' = [sem EXCEPT !.lock_waiters = Append(@, t)]
            /\ stask' = [stask EXCEPT ![t] = [pc |-> "waiting", ret |-> NoName]]
    /\ UnchangedBySemanticCache

\* middleware.py:197: the first waiter is given the released lock.
InitLockAcquired(t) ==
    /\ stask[t].pc = "waiting"
    /\ sem.lock_owner = 0
    /\ sem.lock_waiters # <<>>
    /\ Head(sem.lock_waiters) = t
    /\ UnderInitLock(t, [sem EXCEPT !.lock_owner = t, !.lock_waiters = Tail(@)])
    /\ UnchangedBySemanticCache

\* middleware.py:207-209: get_text_embedding returns or raises.
EmbeddingDone(t, ok) ==
    /\ stask[t].pc = "embedding"
    /\ IF ok
       THEN /\ stask' = [stask EXCEPT ![t] = [pc |-> "create", ret |-> NoName]]
            /\ sem' = sem
       ELSE /\ stask' = [stask EXCEPT ![t] = [pc |-> "idle", ret |-> "False"]]
            /\ sem' = InitFailed(sem)
    /\ UnchangedBySemanticCache

\* middleware.py:226-253: SemanticCache(overwrite=False) returns, raises for
\* an index whose schema does not match, or raises another error.
CreateCacheDone(t, how) ==
    /\ stask[t].pc = "create"
    /\ how \in {"ok", "schema", "error"}
    /\ IF how = "ok"
       THEN /\ stask' = [stask EXCEPT ![t] = [pc |-> "idle", ret |-> "True"]]
            /\ sem' = InitSucceeded(sem)
       ELSE IF how = "schema"
       THEN /\ stask' = [stask EXCEPT ![t] = [pc |-> "overwrite", ret |-> NoName]]
            /\ sem' = sem
       ELSE /\ stask' = [stask EXCEPT ![t] = [pc |-> "idle", ret |-> "False"]]
            /\ sem' = InitFailed(sem)
    /\ UnchangedBySemanticCache

\* middleware.py:241-251: SemanticCache(overwrite=True) returns or raises.
CreateCacheOverwriteDone(t, ok) ==
    /\ stask[t].pc = "overwrite"
    /\ IF ok
       THEN /\ stask' = [stask EXCEPT ![t] = [pc |-> "idle", ret |-> "True"]]
            /\ sem' = InitSucceeded(sem)
       ELSE /\ stask' = [stask EXCEPT ![t] = [pc |-> "idle", ret |-> "False"]]
            /\ sem' = InitFailed(sem)
    /\ UnchangedBySemanticCache

\* One SemanticCacheMiddleware, with or without a Redis URL, whose
\* awrap_model_call is entered by the coroutines of one event loop.
InitSemanticCache ==
    /\ InitCommon /\ InitMcp /\ MwAtRest
    /\ InitFactoryState /\ ~redis_url /\ fmode = "get_store"
    /\ max_retries = DefaultMaxRetries
    /\ tcall = IdleT
    /\ \E url \in BOOLEAN : sem = NewSemanticCache(url)
    /\ stask = [t \in STasks |-> IdleS]
    /\ WorkflowAtRest

NextSemanticCache ==
    \/ \E t \in STasks : EnsureCacheInitialized(t)
    \/ \E t \in STasks : InitLockAcquired(t)
    \/ \E t \in STasks, ok \in BOOLEAN : EmbeddingDone(t, ok)
    \/ \E t \in STasks, how \in {"ok", "schema", "error"} : CreateCacheDone(t, how)
    \/ \E t \in STasks, ok \in BOOLEAN : CreateCacheOverwriteDone(t, ok)

SpecSemanticCache == InitSemanticCache /\ [][NextSemanticCache]_vars

C39_YieldsOnce ==
    [][\A t \in DegradeTasks :
          /\ GetMemorySaverEnter(t, "acquired") =>
                ctask'[t].pc = "body" /\ ctask'[t].out = "yielded"
          /\ GetMemorySaverEnter(t, "shutdown") =>
                ctask'[t].pc = "body" /\ ctask'[t].out = "yielded_none"
          /\ \A body \in BodyOutcomes :
                GetMemorySaverExit(t, body) =>
                   /\ ctask'[t].pc = "done"
                   /\ ctask'[t].out # "didnt_stop"
                   /\ body = "returns" => ctask'[t].out = "exited"]_vars

\* ------------------------------------------------ planner/executor workflow

\* longest plan a planner writes
MaxPlan == 3
Plans == {[i \in 1..n |-> i] : n \in 0..MaxPlan}

\* planner_executor.py:164-172: should_continue_or_replan
ShouldContinueOrReplan(st) ==
    IF st.current_step_index >= Len(st.plan) THEN "complete"
    ELSE IF /\ st.execution_results # <<>>
            /\ ~st.execution_results[Len(st.execution_results)].success
    THEN (IF st.replanning_count < 2 THEN "replan" ELSE "complete")
    ELSE "continue"

\* planner_executor.py:56-64: the conditional edges of the executor
ExecutorEdge(st) ==
    CASE ShouldContinueOrReplan(st) = "continue" -> "executor"
      [] ShouldContinueOrReplan(st) = "replan" -> "replanner"
      [] ShouldContinueOrReplan(st) = "complete" -> "responder"

\* what no node of the workflow touches
UnchangedByWorkflow ==
    UnchangedByMiddleware /\ UNCHANGED <<max_retries, tcall, sem, stask>>

\* planner_executor.py:77-115: planner_node.  A planner that succeeds stores
\* its plan, index 0 and no results; one that fails counts an error and
\* leaves the state's plan, index and results.  The edge leads to the
\* executor.
PlannerNode(ok, plan) ==
    /\ node = "planner"
    /\ plan_state' = IF ok
                THEN [plan_state EXCEPT !.workflow_status = "planning",
                                   !.plan = plan, !.current_step_index = 0,
                                   !.execution_results = <<>>, !.steps = @ + 1]
                ELSE [plan_state EXCEPT !.workflow_status = "planning",
                                   !.error_count = @ + 1, !.steps = @ + 1]
    /\ node' = "executor"
    /\ UnchangedByWorkflow

\* planner_executor.py:118-145: executor_node, then the conditional edge.
\* `state["plan"][state["current_step_index"]]` is the first statement of
\* the try block: with the index at the end of the plan it raises IndexError
\* before current_step is bound, and the handler, which names current_step,
\* raises UnboundLocalError out of the node and the run.  Else the step
\* succeeds (a result with success, index + 1) or fails (an error counted,
\* a result without success).
ExecutorNode(ok) ==
    /\ node = "executor"
    /\ IF plan_state.current_step_index >= Len(plan_state.plan)
       THEN /\ plan_state' = [plan_state EXCEPT !.workflow_status = "executing",
                                      !.error_count = @ + 1, !.steps = @ + 1]
            /\ node' = "raised"
       ELSE /\ plan_state' =
                 IF ok
                 THEN [plan_state EXCEPT
                         !.workflow_status = "executing",
                         !.execution_results = Append(@,
                             [step |-> plan_state.plan[plan_state.current_step_index + 1],
                              success |-> TRUE]),
                         !.current_step_index = @ + 1, !.steps = @ + 1]
                 ELSE [plan_state EXCEPT
                         !.workflow_status = "executing",
                         !.error_count = @ + 1,
                         !.execution_results = Append(@,
                             [step |-> plan_state.plan[plan_state.current_step_index + 1],
                              success |-> FALSE]),
                         !.steps = @ + 1]
            /\ node' = ExecutorEdge(plan_state')
    /\ UnchangedByWorkflow

\* planner_executor.py:148-153: replanner_node; the edge leads to the
\* executor.
ReplannerNode ==
    /\ node = "replanner"
    /\ plan_state' = [plan_state EXCEPT !.replanning_count = @ + 1, !.steps = @ + 1]
    /\ node' = "executor"
    /\ UnchangedByWorkflow

\* planner_executor.py:156-161: responder_node; the edge leads to END.
ResponderNode ==
    /\ node = "responder"
    /\ plan_state' = [plan_state EXCEPT !.workflow_status = "completed", !.steps = @ + 1]
    /\ node' = "END"
    /\ UnchangedByWorkflow

\* The compiled workflow is invoked at its entry point with a
\* PlanExecuteState that holds some plan, the empty default among them.
InitWorkflow ==
    /\ InitCommon /\ InitMcp /\ MwAtRest
    /\ InitFactoryState /\ ~redis_url /\ fmode = "get_store"
    /\ max_retries = DefaultMaxRetries
    /\ tcall = IdleT
    /\ sem = NewSemanticCache(FALSE)
    /\ stask = [t \in STasks |-> IdleS]
    /\ node = "planner"
    /\ \E plan \in Plans : plan_state = NewPlanExecuteState(plan)

NextWorkflow ==
    \/ \E ok \in BOOLEAN, plan \in Plans : PlannerNode(ok, plan)
    \/ \E ok \in BOOLEAN : ExecutorNode(ok)
    \/ ReplannerNode
    \/ ResponderNode

\* The graph executes the node its edges lead to as long as there is one,
\* and every node returns or raises.
SpecWorkflow == InitWorkflow /\ [][NextWorkflow]_vars /\ WF_vars(NextWorkflow)

\* C40: a run of the workflow started at the planner executes the responder
\* after finitely many nodes, whatever the plan, the empty one included, and
\* however its steps succeed and fail; on the way the replanner runs at most
\* twice and current_step_index stays at or below len(plan).
C40_WorkflowFinishes ==
    /\ <>(node = "END" /\ plan_state.workflow_status = "completed")
    /\ [](plan_state.replanning_count <= 2)
    /\ [](plan_state.current_step_index <= Len(plan_state.plan))
    /\ [](node # "raised")

====
